---- MODULE Spec2Model ----
(***************************************************************************)
(* Model of the asynchronous HTML tokenizer of                             *)
(* components/script/dom/servoparser/async_html.rs: the main-thread        *)
(* Tokenizer (the facade), the parser thread (run), the Sink that routes   *)
(* parse operations by its SinkState, and the ParseOperationExecutor that  *)
(* applies them to the node table.                                         *)
(*                                                                         *)
(* html5ever's tokenizer and tree builder are a black box to this file.    *)
(* They are modelled by a small deterministic automaton over one-letter    *)
(* tokens that drives the Sink's TreeSink callbacks the way the tree       *)
(* builder does: it keeps a stack of open elements, mints handles through  *)
(* the Sink and stops at a script.                                         *)
(***************************************************************************)
EXTENDS Integers, Sequences, FiniteSets, TLC

\* ------------------------------------------------------------------ bounds
\* Calls of feed() and start_speculative_parsing() the driver makes in a run.
MaxCalls == 4

\* ------------------------------------------------------------------ values
NONE == -1
TEXT == -2
NoScript == -1

\* Input letters: element start tag, end tag, complete script element,
\* template start tag, text, comment.
Chunks == { <<"s", "e">>, <<"t", "x", "m">>, <<"e", "c">> }

\* ParseOperation as a flat record: node is the handle the operation
\* introduces, target and child the handles it refers to.  gen is a history
\* tag: the serial number of the Feed message during which the parser thread
\* produced the operation, 0 for an operation produced on the main thread.
ParseOp(kind, node, target, child) ==
    [kind |-> kind, node |-> node, target |-> target, child |-> child,
     element |-> NONE, prev |-> NONE, form |-> NONE, gen |-> 0]

\* The operations with more handles: element and prev are element and
\* prev_element (prev is also the new_parent of ReparentChildren), form the
\* form of AssociateWithForm.
TreeOp(kind, target, form, element, prev, child) ==
    [ParseOp(kind, NONE, target, child) EXCEPT !.element = element, !.prev = prev,
                                               !.form = form]

Strip(op) == [op EXCEPT !.gen = 0]

StripAll(ops) == [i \in 1..Len(ops) |-> Strip(ops[i])]

\* ------------------------------------------------- ParseOperationExecutor
\* nodes: the handles of the table; parent: the tree position of each node
\* (NONE when detached) and children: its children in order, TEXT for a text
\* child; form_owner: the form owner of the controls that have one; err: the
\* panic an operation ran into, if any; log: history, the operations handed
\* to process_operation so far, in order.
ExecutorNew(document) ==
    [nodes |-> IF document THEN {0} ELSE {},
     parent |-> IF document THEN (0 :> NONE) ELSE << >>,
     children |-> IF document THEN (0 :> << >>) ELSE << >>,
     form_owner |-> << >>,
     log |-> << >>,
     err |-> "none"]

\* Mutant: an id that is in the table is bound again.
insert_node_Rebind(ex, id) ==
    IF ex.err # "none" THEN ex
    ELSE [ex EXCEPT !.nodes = @ \cup {id}, !.parent = (id :> NONE) @@ @,
                    !.children = (id :> << >>) @@ @]

insert_node(ex, id) ==
    IF ex.err # "none" THEN ex
    ELSE IF id \in ex.nodes THEN [ex EXCEPT !.err = "duplicate node id"]
    ELSE [ex EXCEPT !.nodes = @ \cup {id}, !.parent = (id :> NONE) @@ @,
                    !.children = (id :> << >>) @@ @]

\* get_node only reads; Found is its success condition.
Found(ex, id) == id \in ex.nodes

get_node(ex, id) ==
    IF ex.err # "none" \/ Found(ex, id) THEN ex
    ELSE [ex EXCEPT !.err = "Node not found!"]

Without(seq, x) == SelectSeq(seq, LAMBDA y : y # x)

Before(seq, sibling) == SubSeq(seq, 1, (CHOOSE i \in 1..Len(seq) : seq[i] = sibling) - 1)

From(seq, sibling) == SubSeq(seq, CHOOSE i \in 1..Len(seq) : seq[i] = sibling, Len(seq))

\* A node leaves the children of its parent, if it has one.
Detach(ex, child) ==
    IF child = TEXT \/ ex.parent[child] = NONE THEN ex
    ELSE [ex EXCEPT !.children[ex.parent[child]] = Without(@, child),
                    !.parent[child] = NONE]

Placed(d, parent, sibling, child) ==
    [d EXCEPT !.children[parent] =
                  IF sibling = NONE THEN Append(@, child)
                  ELSE Before(@, sibling) \o <<child>> \o From(@, sibling),
              !.parent = IF child = TEXT THEN @ ELSE [@ EXCEPT ![child] = parent]]

\* super::insert(parent, reference_child, node): the node, taken from where
\* it was, becomes a child of parent before the reference child, or the last
\* child when there is none.
Insert(ex, parent, sibling, child) == Placed(Detach(ex, child), parent, sibling, child)

SetParent(ex, parent, child) ==
    IF ex.err # "none" THEN ex
    ELSE Insert(ex, parent, NONE, child)

\* Mutant: append ignores the child.
append_Nothing(ex, parent, child) == ex

append(ex, parent, child) ==
    SetParent(get_node(IF child = TEXT THEN ex ELSE get_node(ex, child), parent),
              parent, child)

\* `sibling.GetParentNode().expect(..)`, then the insertion before sibling.
SiblingInsert(ex, sibling, child) ==
    IF ex.err # "none" THEN ex
    ELSE IF ex.parent[sibling] = NONE
    THEN [ex EXCEPT !.err = "append_before_sibling called on node without parent"]
    ELSE Insert(ex, ex.parent[sibling], sibling, child)

append_before_sibling(ex, sibling, child) ==
    SiblingInsert(get_node(IF child = TEXT THEN ex ELSE get_node(ex, child), sibling),
                  sibling, child)

has_parent_node(ex, node) == ex.parent[node] # NONE

\* The root of the tree a node is in; is_in_same_home_subtree compares them.
RECURSIVE RootOf(_, _)
RootOf(ex, x) == IF ex.parent[x] = NONE THEN x ELSE RootOf(ex, ex.parent[x])

same_tree(ex, x, y) == RootOf(ex, x) = RootOf(ex, y)

\* Mutant: the worker's first choice, element, is taken as it is.
BasedOnParentNode_Element(ex, op) == append_before_sibling(ex, op.element, op.child)

\* AppendBasedOnParentNode: the choice is made on the tree as it is now.
BasedOnParentNode(ex, op) ==
    IF ex.err # "none" THEN ex
    ELSE IF has_parent_node(ex, op.element)
    THEN append_before_sibling(ex, op.element, op.child)
    ELSE append(ex, op.prev, op.child)

\* Mutant: the handle of the removed node leaves the table.
RemovedFromParent_Forgets(ex, target) ==
    IF ex.err # "none" THEN ex ELSE [Detach(ex, target) EXCEPT !.nodes = @ \ {target}]

\* `parent.RemoveChild(target)` if target has a parent.
RemovedFromParent(ex, target) == IF ex.err # "none" THEN ex ELSE Detach(ex, target)

\* `while let Some(child) = parent.GetFirstChild() { new_parent.AppendChild(child) }`
\* The loop makes no progress when both handles name one node with children.
Reparented(ex, parent, new_parent) ==
    IF ex.err # "none" THEN ex
    ELSE IF parent = new_parent
    THEN (IF ex.children[parent] = << >> THEN ex
          ELSE [ex EXCEPT !.err = "reparent_children: the loop never ends"])
    ELSE [ex EXCEPT !.children[new_parent] = @ \o ex.children[parent],
                    !.children[parent] = << >>,
                    !.parent = [n \in DOMAIN @ |->
                                    IF @[n] = parent THEN new_parent ELSE @[n]]]

\* `prev_element.map_or(element, |prev| if has_parent_node(element) ..)`
TreeNode(ex, op) ==
    IF op.prev = NONE \/ has_parent_node(ex, op.element) THEN op.element ELSE op.prev

\* `control.set_form_owner_from_parser(&form)`, target having been looked up.
FormOwnerSet(ex, op) ==
    IF ex.err # "none" THEN ex
    ELSE [ex EXCEPT !.form_owner = (op.target :> op.form) @@ @]

\* Mutant: the form owner is set whatever the trees are.
SameTreeChecked_Always(ex, op) == FormOwnerSet(get_node(ex, op.target), op)

\* `if !self.same_tree(tree_node, form) { return; }`, both looked up.
SameTreeChecked(ex, op) ==
    IF ex.err # "none" \/ ~same_tree(ex, TreeNode(ex, op), op.form) THEN ex
    ELSE FormOwnerSet(get_node(ex, op.target), op)

Looked(ex, ids) ==
    IF \A id \in ids : id = NONE \/ Found(ex, id) THEN ex
    ELSE get_node(ex, CHOOSE id \in ids : id # NONE /\ ~Found(ex, id))

\* AssociateWithForm, element having been looked up.
Associated(ex, op) ==
    IF ex.err # "none" THEN ex
    ELSE SameTreeChecked(Looked(ex, {TreeNode(ex, op), op.form}), op)

\* The match of process_operation, after the document was looked up.
ExecMatch(e0, op) ==
    CASE op.kind = "GetTemplateContents" ->
            insert_node(get_node(e0, op.target), op.node)
      [] op.kind = "CreateElement" -> insert_node(e0, op.node)
      [] op.kind = "CreateComment" -> insert_node(e0, op.node)
      [] op.kind = "Append" -> append(e0, op.target, op.child)
      [] op.kind = "Pop" -> get_node(e0, op.target)
      [] op.kind = "AppendBeforeSibling" -> append_before_sibling(e0, op.target, op.child)
      [] op.kind = "AppendBasedOnParentNode" ->
            BasedOnParentNode(get_node(e0, op.element), op)
      [] op.kind = "RemoveFromParent" ->
            RemovedFromParent(get_node(e0, op.target), op.target)
      [] op.kind = "ReparentChildren" ->
            Reparented(Looked(e0, {op.target, op.prev}), op.target, op.prev)
      [] op.kind = "AssociateWithForm" ->
            Associated(get_node(e0, op.element), op)
      [] OTHER -> e0

ExecProcessOperation(ex, op) ==
    ExecMatch(get_node([ex EXCEPT !.log = Append(@, op)], 0), op)

\* The test reads the log first, so that the executor is evaluated after
\* every operation and not as one nested expression at the end.
RECURSIVE ExecAll(_, _)
ExecAll(ex, ops) ==
    IF Len(ex.log) >= 0 /\ ops = << >> THEN ex
    ELSE ExecAll(ExecProcessOperation(ex, Head(ops)), Tail(ops))

\* ------------------------------------------------------------------- Sink
\* parse_node_data maps every minted handle to its template contents handle
\* (NONE when it has none).  queue is the VecDeque of BufferingParseOperations
\* and executor the table held by ParsingDocWriteContents; both are empty in
\* the other states.
NoExecutor == ExecutorNew(FALSE)

\* Mutant: the counter starts at the id of the document.
SinkNew_FromZero ==
    [next_parse_node_id |-> 0,
     parse_node_data |-> (0 :> NONE),
     state |-> "SendingParseOps",
     queue |-> << >>,
     executor |-> ExecutorNew(FALSE)]

SinkNew ==
    [next_parse_node_id |-> 1,
     parse_node_data |-> (0 :> NONE),
     state |-> "SendingParseOps",
     queue |-> << >>,
     executor |-> NoExecutor]

new_parse_node(sink) ==
    [sink |-> [sink EXCEPT !.parse_node_data = (sink.next_parse_node_id :> NONE) @@ @,
                           !.next_parse_node_id = @ + 1],
     id |-> sink.next_parse_node_id]

\* SendableSink carries the counters and the node data, neither the sender
\* nor the SinkState; a Sink rebuilt from it starts in SendingParseOps.
SinkGetSendable(sink) ==
    [next_parse_node_id |-> sink.next_parse_node_id,
     parse_node_data |-> sink.parse_node_data]

SinkFromSendable(s) ==
    [next_parse_node_id |-> s.next_parse_node_id,
     parse_node_data |-> s.parse_node_data,
     state |-> "SendingParseOps",
     queue |-> << >>,
     executor |-> NoExecutor]

\* Messages from the parser thread to the main thread.
ToMain(type, op, ops, script, input, spec, tok) ==
    [type |-> type, op |-> op, ops |-> ops, script |-> script,
     updated_input |-> input, speculative_parsing_mode |-> spec, tok |-> tok]

NoOp == ParseOp("none", NONE, NONE, NONE)
NoTok == [stack |-> << >>, sink |-> [next_parse_node_id |-> 0, parse_node_data |-> << >>]]

MsgProcessOperation(op) == ToMain("ProcessOperation", op, << >>, NoScript, << >>, FALSE, NoTok)
MsgSpeculativeParseOps(ops) == ToMain("SpeculativeParseOps", NoOp, ops, NoScript, << >>, FALSE, NoTok)
MsgDone(input, spec) == ToMain("TokenizerResultDone", NoOp, << >>, NoScript, input, spec, NoTok)
MsgScript(script, input, spec) == ToMain("TokenizerResultScript", NoOp, << >>, script, input, spec, NoTok)
MsgInternalState(tok) == ToMain("HtmlTokenizerInternalState", NoOp, << >>, NoScript, << >>, FALSE, tok)
MsgEnd == ToMain("End", NoOp, << >>, NoScript, << >>, FALSE, NoTok)

\* Mutant: an operation is lost while the Sink is buffering.
SinkProcessOperation_DropBuffered(w, op) ==
    CASE w.sink.state = "BufferingParseOperations" -> w
      [] w.sink.state = "SendingParseOps" ->
            [w EXCEPT !.out = Append(@, MsgProcessOperation(op))]
      [] w.sink.state = "ParsingDocWriteContents" ->
            [w EXCEPT !.sink.executor = ExecProcessOperation(@, op)]

\* Mutant: a buffered operation is also sent.
SinkProcessOperation_Both(w, op) ==
    CASE w.sink.state = "BufferingParseOperations" ->
            [w EXCEPT !.sink.queue = Append(@, op),
                      !.out = Append(@, MsgProcessOperation(op))]
      [] w.sink.state = "SendingParseOps" ->
            [w EXCEPT !.out = Append(@, MsgProcessOperation(op))]
      [] w.sink.state = "ParsingDocWriteContents" ->
            [w EXCEPT !.sink.executor = ExecProcessOperation(@, op)]

\* Sink::process_operation on a Sink and the parser->main channel `out`.
SinkProcessOperation(w, op) ==
    CASE w.sink.state = "BufferingParseOperations" ->
            [w EXCEPT !.sink.queue = Append(@, op)]
      [] w.sink.state = "SendingParseOps" ->
            [w EXCEPT !.out = Append(@, MsgProcessOperation(op))]
      [] w.sink.state = "ParsingDocWriteContents" ->
            [w EXCEPT !.sink.executor = ExecProcessOperation(@, op)]

\* Mutant: the queue is sent twice.
flush_tree_ops_Twice(w) ==
    IF w.sink.state # "BufferingParseOperations"
    THEN [w EXCEPT !.panic = "flush_tree_ops: unreachable"]
    ELSE [w EXCEPT !.sink.state = "SendingParseOps",
                   !.sink.queue = << >>,
                   !.out = @ \o <<MsgSpeculativeParseOps(w.sink.queue),
                                  MsgSpeculativeParseOps(w.sink.queue)>>]

\* Mutant: the queue is dropped and an empty one is sent.
flush_tree_ops_Lossy(w) ==
    IF w.sink.state # "BufferingParseOperations"
    THEN [w EXCEPT !.panic = "flush_tree_ops: unreachable"]
    ELSE [w EXCEPT !.sink.state = "SendingParseOps",
                   !.sink.queue = << >>,
                   !.out = Append(@, MsgSpeculativeParseOps(<< >>))]

\* Mutant: the queue is sent and the Sink goes on buffering.
flush_tree_ops_StaysBuffering(w) ==
    IF w.sink.state # "BufferingParseOperations"
    THEN [w EXCEPT !.panic = "flush_tree_ops: unreachable"]
    ELSE [w EXCEPT !.sink.queue = << >>,
                   !.out = Append(@, MsgSpeculativeParseOps(w.sink.queue))]

\* Sink::flush_tree_ops; panics unless the Sink is buffering.
flush_tree_ops(w) ==
    IF w.sink.state # "BufferingParseOperations"
    THEN [w EXCEPT !.panic = "flush_tree_ops: unreachable"]
    ELSE [w EXCEPT !.sink.state = "SendingParseOps",
                   !.sink.queue = << >>,
                   !.out = Append(@, MsgSpeculativeParseOps(w.sink.queue))]

\* The TreeSink callbacks: each mints what it needs and hands exactly one
\* operation to process_operation.  w = [sink, out, panic, gen].
Emit(w, op) == SinkProcessOperation(w, [op EXCEPT !.gen = w.gen])

\* `self.process_op(..)`, which create_element and five other callbacks call
\* where the rest call process_operation: routed by the SinkState alike.
process_op(w, op) == Emit(w, op)

\* n is the node new_parse_node returned: emit the operation that creates it.
EmitCreated(w, n, kind) ==
    [w |-> IF kind = "CreateElement"
           THEN process_op([w EXCEPT !.sink = n.sink], ParseOp(kind, n.id, NONE, NONE))
           ELSE Emit([w EXCEPT !.sink = n.sink], ParseOp(kind, n.id, NONE, NONE)),
     id |-> n.id]

create_element(w) == EmitCreated(w, new_parse_node(w.sink), "CreateElement")

create_comment(w) == EmitCreated(w, new_parse_node(w.sink), "CreateComment")

EmitContents(w, n, target) ==
    [w |-> Emit([w EXCEPT !.sink = [n.sink EXCEPT !.parse_node_data[target] = n.id]],
                ParseOp("GetTemplateContents", n.id, target, NONE)),
     id |-> n.id]

\* Mutant: the contents are minted on every call.
get_template_contents_Always(w, target) ==
    EmitContents(w, new_parse_node(w.sink), target)

get_template_contents(w, target) ==
    IF w.sink.parse_node_data[target] # NONE
    THEN [w |-> w, id |-> w.sink.parse_node_data[target]]
    ELSE EmitContents(w, new_parse_node(w.sink), target)

sink_append(w, parent, child) == Emit(w, ParseOp("Append", NONE, parent, child))

sink_pop(w, node) == Emit(w, ParseOp("Pop", NONE, node, NONE))

sink_remove_from_parent(w, target) ==
    Emit(w, TreeOp("RemoveFromParent", target, NONE, NONE, NONE, NONE))

sink_reparent_children(w, parent, new_parent) ==
    Emit(w, TreeOp("ReparentChildren", parent, NONE, NONE, new_parent, NONE))

sink_append_based_on_parent_node(w, elem, prev_elem, child) ==
    process_op(w, TreeOp("AppendBasedOnParentNode", NONE, NONE, elem, prev_elem, child))

sink_associate_with_form(w, target, form, element, prev_element) ==
    process_op(w, TreeOp("AssociateWithForm", target, form, element, prev_element, NONE))

\* ------------------------------------ the tokenizer and tree builder (h5e)
\* A tokenizer is [stack, w]: the stack of open elements, each a ParseNode
\* [id, tmpl] (tmpl stands for the qual_name being `template`), and the
\* world w its Sink writes to.
NoWorldSink(sink) == [sink |-> sink, out |-> << >>, panic |-> "none", gen |-> 0]

\* The appropriate place for inserting a node: the current node, or the
\* contents of the current node when it is a template.
InsertionPlaceOf(top, w) ==
    IF top.tmpl THEN get_template_contents(w, top.id) ELSE [w |-> w, id |-> top.id]

InsertionPlace(stack, w) ==
    IF stack = << >> THEN [w |-> w, id |-> 0]
    ELSE InsertionPlaceOf(stack[Len(stack)], w)

\* What a token leaves: the stack, the world and the script the tokenizer
\* stops at, if any.
Stepped(stack, w, script) == [stack |-> stack, w |-> w, script |-> script]

\* An element c was created and inserted, w is the world after that.
ElementInserted(stack, c, w, ch) ==
    IF ch = "s" THEN Stepped(stack, sink_pop(w, c.id), c.id)
    ELSE Stepped(Append(stack, [id |-> c.id, tmpl |-> (ch = "t")]), w, NoScript)

InsertAt(ip, child) == sink_append(ip.w, ip.id, child)

ElementCreated(stack, c, ch) ==
    ElementInserted(stack, c, InsertAt(InsertionPlace(stack, c.w), c.id), ch)

CommentCreated(stack, c) ==
    Stepped(stack, InsertAt(InsertionPlace(stack, c.w), c.id), NoScript)

Top(stack) == stack[Len(stack)]

Below(stack) == stack[Len(stack) - 1]

\* The adoption agency: the children of the current node move to a new
\* element c, which becomes the child of the current node.
Adopted(stack, c) ==
    Stepped(stack,
            sink_append(sink_reparent_children(c.w, Top(stack).id, c.id), Top(stack).id, c.id),
            NoScript)

\* Where insert_element puts a form control c: with foster parenting (two
\* open elements or more) the nodes are the current node and the one below
\* it, otherwise the current node alone.
ControlPlaced(stack, w, c) ==
    IF Len(stack) >= 2
    THEN sink_append_based_on_parent_node(w, Top(stack).id, Below(stack).id, c)
    ELSE sink_append(w, Top(stack).id, c)

\* insert_element for a form control: the form pointer is the first open
\* element; associate_with_form comes before the insertion.
ControlCreated(stack, c) ==
    Stepped(stack,
            ControlPlaced(stack,
                          sink_associate_with_form(c.w, c.id, stack[1].id, Top(stack).id,
                                                   IF Len(stack) >= 2 THEN Below(stack).id
                                                   ELSE NONE),
                          c.id),
            NoScript)

\* The tokens that restructure the tree: r removes the current node from its
\* parent, a foster-parents a text, p runs the adoption agency on the
\* current node, f inserts a form control.
TreeStep(t, ch) ==
    CASE ch = "r" /\ t.stack # << >> ->
            Stepped(t.stack, sink_remove_from_parent(t.w, Top(t.stack).id), NoScript)
      [] ch = "a" /\ Len(t.stack) >= 2 ->
            Stepped(t.stack,
                    sink_append_based_on_parent_node(t.w, Top(t.stack).id,
                                                     Below(t.stack).id, TEXT),
                    NoScript)
      [] ch = "p" /\ t.stack # << >> -> Adopted(t.stack, create_element(t.w))
      [] ch = "f" /\ t.stack # << >> -> ControlCreated(t.stack, create_element(t.w))
      [] OTHER -> Stepped(t.stack, t.w, NoScript)

\* One token.
TokStep(t, ch) ==
    CASE ch \in {"e", "t", "s"} -> ElementCreated(t.stack, create_element(t.w), ch)
      [] ch = "x" -> Stepped(t.stack, InsertAt(InsertionPlace(t.stack, t.w), TEXT), NoScript)
      [] ch = "m" -> CommentCreated(t.stack, create_comment(t.w))
      [] ch = "c" ->
            IF t.stack = << >> THEN Stepped(t.stack, t.w, NoScript)
            ELSE Stepped(SubSeq(t.stack, 1, Len(t.stack) - 1),
                         sink_pop(t.w, t.stack[Len(t.stack)].id), NoScript)
      [] OTHER -> TreeStep(t, ch)

\* HtmlTokenizer::feed: consumes input until it is empty (Done) or a script
\* ends (Script); rest is what is left in the BufferQueue.
RECURSIVE TokFeed(_, _)
TokContinue(r, rest) ==
    IF r.script # NoScript
    THEN [stack |-> r.stack, w |-> r.w, script |-> r.script, rest |-> rest]
    ELSE TokFeed([stack |-> r.stack, w |-> r.w], rest)

TokFeed(t, input) ==
    IF input = << >>
    THEN [stack |-> t.stack, w |-> t.w, script |-> NoScript, rest |-> << >>]
    ELSE TokContinue(TokStep(t, Head(input)), Tail(input))

\* HtmlTokenizer::end: the tree builder pops the elements still open.
RECURSIVE TokEnd(_)
TokEnd(t) ==
    IF t.stack = << >> THEN t
    ELSE TokEnd([stack |-> SubSeq(t.stack, 1, Len(t.stack) - 1),
                 w |-> sink_pop(t.w, t.stack[Len(t.stack)].id)])

\* SendableTokenizer: the tokenizer with its Sink made sendable, and back.
get_sendable(stack, sink) == [stack |-> stack, sink |-> SinkGetSendable(sink)]

get_self_from_sendable(s) == [stack |-> s.stack, sink |-> SinkFromSendable(s.sink)]

\* ------------------------------------------------------------------ state
VARIABLES
    \* Tokenizer (main thread)
    state, tokenizer, document_write_called, waiting_on_script, executor,
    pending_result,
    \* where the main thread is inside a call, the message end_speculative_parsing
    \* holds in `msg`, and what the last feed() returned
    pc, msg, ret,
    \* the driver's BufferQueues (network input, document.write input) and
    \* how many calls it has made
    input, winput, ncalls,
    \* the two channels
    to_parser, to_main,
    \* the parser thread; plaintext: its tokenizer is in the Plaintext state
    html_tokenizer, running, plaintext,
    \* the panic message of whichever thread panicked
    panic,
    \* history: operations produced by the parser thread; the reference
    \* (single-threaded, never speculating) parser and what it applied; handles
    \* minted; messages handled and sent by the parser thread; messages
    \* sent by the main thread; the window's Feed serial, input, snapshot and
    \* written inputs; the serials of the windows in which document.write was
    \* called and of the windows that were confirmed
    produced, refTok, refOps, minted, hlog, wlog, sent, wgen, specInput,
    preSnap, wrote, written, confirmed,
    \* history: end_speculative_parsing was called with a blocking script
    \* pending and has not been called again since
    blocked,
    \* history: the operation that was called in a state that does not list
    \* it, "none" while there was no such call
    misuse,
    \* the channel ends run has dropped on its way out: its "receiver" of the
    \* main thread's messages, its "sender" (with the Sink's clone of it)
    dropped,
    \* history: a call of end_speculative_parsing with a blocking script
    \* pending has set waiting_on_script in the window that is open or being
    \* resolved
    deferred,
    \* history: the handles Tokenizer::new gave the nodes of the fragment
    \* context
    context

mainVars == <<state, tokenizer, document_write_called, waiting_on_script,
              executor, pending_result, pc, msg, ret>>
driverVars == <<input, winput, ncalls>>
workerVars == <<html_tokenizer, running, plaintext>>
refVars == <<refTok, refOps>>
windowVars == <<wgen, specInput, preSnap, wrote, written, confirmed, blocked,
                misuse, dropped, deferred>>
workerLogs == <<produced, hlog, wlog>>
vars == <<mainVars, driverVars, to_parser, to_main, workerVars, panic,
          refVars, windowVars, workerLogs, minted, sent, context>>

\* Messages from the main thread to the parser thread.
ToParser(type, inp, spec, tok) ==
    [type |-> type, input |-> inp, should_parse_speculatively |-> spec,
     tok_internal_state |-> tok]

NoEmbedded == [stack |-> << >>, sink |-> SinkFromSendable(NoTok.sink)]
NoMsg == ToMain("none", NoOp, << >>, NoScript, << >>, FALSE, NoTok)
NoPending == [some |-> FALSE, script |-> NoScript]
Pending(script) == [some |-> TRUE, script |-> script]
Returned(kind, script) == [kind |-> kind, script |-> script]

Range(a, b) == [i \in 1..(b - a) |-> a + i - 1]

\* History of the handles a-1 .. b-1 minted while handling message gen.
Minted(a, b, g) == [i \in 1..(b - a) |-> [id |-> a + i - 1, gen |-> g]]

OpsOf(out) == [i \in 1..Len(out) |-> out[i].op]

LogOf(out, req) ==
    [i \in 1..Len(out) |->
        [type |-> out[i].type, req |-> req,
         speculative_parsing_mode |-> out[i].speculative_parsing_mode,
         script |-> out[i].script, updated_input |-> out[i].updated_input]]

\* The fragment context of Tokenizer::new, by the number of nodes it brings:
\* none, or a context element and a form element.
FragmentContexts == {0, 2}

\* Mutant: the nodes of the fragment context are not minted by the Sink.
MintN_Nothing(sink, n) == sink

RECURSIVE MintN(_, _)
MintN(sink, n) == IF n = 0 THEN sink ELSE MintN(new_parse_node(sink).sink, n - 1)

RECURSIVE InsertAll(_, _)
InsertAll(ex, ids) ==
    IF ids = << >> THEN ex ELSE InsertAll(insert_node(ex, Head(ids)), Tail(ids))

\* Tokenizer::new with a fragment context of frag nodes.
InitFor(frag) ==
        LET sink == MintN(SinkNew, frag)
            start == get_self_from_sendable(get_sendable(<< >>, sink))
        IN /\ state = "ExecutingParseOps"
           /\ tokenizer = NoEmbedded
           /\ document_write_called = FALSE
           /\ waiting_on_script = FALSE
           /\ executor = InsertAll(ExecutorNew(TRUE), Range(1, frag + 1))
           /\ pending_result = NoPending
           /\ pc = "idle"
           /\ msg = NoMsg
           /\ ret = Returned("none", NoScript)
           /\ input = << >>
           /\ winput = << >>
           /\ ncalls = 0
           /\ to_parser = << >>
           /\ to_main = << >>
           /\ html_tokenizer = start
           /\ running = TRUE
           /\ plaintext = FALSE
           /\ panic = "none"
           /\ produced = << >>
           /\ refTok = start
           /\ refOps = << >>
           /\ minted = Minted(1, frag + 1, 0)
           /\ hlog = << >>
           /\ wlog = << >>
           /\ sent = 0
           /\ wgen = 0
           /\ specInput = << >>
           /\ preSnap = NoTok
           /\ wrote = << >>
           /\ written = {}
           /\ confirmed = {}
           /\ blocked = FALSE
           /\ misuse = "none"
           /\ dropped = {}
           /\ deferred = FALSE
           /\ context = 1..frag

Init == \E frag \in FragmentContexts : InitFor(frag)

\* ------------------------------------------------- the reference parser
\* A single-threaded parser that never speculates: one tokenizer whose Sink
\* sends every operation at once, fed the content in document order.
RefResult(r) == [tok |-> [stack |-> r.stack, sink |-> r.w.sink], ops |-> OpsOf(r.w.out)]

RefFeed(tok, inp) ==
    RefResult(TokFeed([stack |-> tok.stack, w |-> NoWorldSink(tok.sink)], inp))

RefEnd(tok) == RefResult(TokEnd([stack |-> tok.stack, w |-> NoWorldSink(tok.sink)]))

\* The reference parser takes a step: it is fed, or ended.
RefAdvance(r) ==
    /\ refTok' = r.tok
    /\ refOps' = refOps \o r.ops

\* ------------------------------------------------------- Tokenizer::feed
Alive == panic = "none"

\* Mutant: the pending result is returned and kept.
FeedPending_Keep(c) ==
    /\ Alive /\ pc = "idle" /\ state = "ExecutingParseOps"
    /\ ncalls < MaxCalls
    /\ pending_result.some
    /\ ncalls' = ncalls + 1
    /\ input' = input \o c
    /\ ret' = IF pending_result.script # NoScript
              THEN Returned("Err", pending_result.script)
              ELSE Returned("Ok", NoScript)
    /\ UNCHANGED <<state, tokenizer, document_write_called, waiting_on_script,
                   executor, pending_result, pc, msg, winput, to_parser,
                   to_main, workerVars, panic, refVars, windowVars, workerLogs,
                   minted, context, sent>>

\* ExecutingParseOps with a pending result: take it and return it.
FeedPending(c) ==
    /\ Alive /\ pc = "idle" /\ state = "ExecutingParseOps"
    /\ ncalls < MaxCalls
    /\ pending_result.some
    /\ ncalls' = ncalls + 1
    /\ input' = input \o c
    /\ pending_result' = NoPending
    /\ ret' = IF pending_result.script # NoScript
              THEN Returned("Err", pending_result.script)
              ELSE Returned("Ok", NoScript)
    /\ UNCHANGED <<state, tokenizer, document_write_called, waiting_on_script,
                   executor, pc, msg, winput, to_parser,
                   to_main, workerVars, panic, refVars, windowVars, workerLogs,
                   minted, context, sent>>

\* ExecutingParseOps without one: send Feed and start receiving.
FeedSend(c) ==
    /\ Alive /\ pc = "idle" /\ state = "ExecutingParseOps"
    /\ ncalls < MaxCalls
    /\ ~pending_result.some
    /\ ncalls' = ncalls + 1
    /\ input' = input \o c
    /\ to_parser' = Append(to_parser, ToParser("Feed", input \o c, FALSE, NoTok))
    /\ sent' = sent + 1
    /\ pc' = "feed"
    /\ ret' = Returned("none", NoScript)
    /\ RefAdvance(RefFeed(refTok, input \o c))
    /\ UNCHANGED <<state, tokenizer, document_write_called, waiting_on_script,
                   executor, pending_result, msg, winput,
                   to_main, workerVars, panic, windowVars, workerLogs, minted, context>>

\* The receive loop of feed(): one message of the parser thread.
Processed(ex) ==
    [executor |-> ex, panic |-> ex.err, done |-> FALSE, ret |-> ret, input |-> input]

FeedRecvResult(m) ==
    CASE m.type = "ProcessOperation" -> Processed(ExecProcessOperation(executor, m.op))
      [] m.type = "TokenizerResultDone" ->
            [executor |-> executor,
             panic |-> IF m.speculative_parsing_mode
                       THEN "parser thread parsed speculatively" ELSE "none",
             done |-> TRUE, ret |-> Returned("Ok", NoScript),
             input |-> m.updated_input]
      [] m.type = "TokenizerResultScript" ->
            [executor |-> executor,
             panic |-> IF m.speculative_parsing_mode
                       THEN "parser thread parsed speculatively"
                       ELSE get_node(executor, m.script).err,
             done |-> TRUE, ret |-> Returned("Err", m.script),
             input |-> m.updated_input]
      [] OTHER ->
            [executor |-> executor, panic |-> "parser thread sent unexpected message",
             done |-> FALSE, ret |-> ret, input |-> input]

FeedRecvApply(r) ==
    /\ executor' = r.executor
    /\ panic' = r.panic
    /\ ret' = r.ret
    /\ input' = r.input
    /\ pc' = IF r.done THEN "idle" ELSE "feed"

FeedRecv ==
    /\ Alive /\ pc = "feed" /\ to_main # << >>
    /\ FeedRecvApply(FeedRecvResult(Head(to_main)))
    /\ to_main' = Tail(to_main)
    /\ UNCHANGED <<state, tokenizer, document_write_called, waiting_on_script,
                   pending_result, msg, winput, ncalls,
                   to_parser, workerVars, refVars, windowVars, workerLogs,
                   minted, context, sent>>

\* SpeculativeParsing: a document.write() call; the embedded tokenizer parses
\* the written content on the main thread.
\* r is what the embedded tokenizer's feed left; the script it stopped at is
\* looked up in the executor its Sink holds.
FeedWriteApply(r) ==
    /\ tokenizer' = [stack |-> r.stack, sink |-> r.w.sink]
    /\ winput' = r.rest
    /\ panic' = IF r.script = NoScript THEN r.w.sink.executor.err
                ELSE get_node(r.w.sink.executor, r.script).err
    /\ ret' = IF r.script = NoScript THEN Returned("Ok", NoScript)
              ELSE Returned("Err", r.script)
    /\ minted' = minted \o Minted(tokenizer.sink.next_parse_node_id,
                                  r.w.sink.next_parse_node_id, 0)

\* Mutant: the flag is left as it was.
DocumentWriteCalled_Kept == document_write_called

\* `*document_write_called = true`
DocumentWriteCalled == TRUE

\* Mutant: the pending result of an earlier window is left in place.
PendingDiscarded_Kept == pending_result

\* `self.pending_result.take()`
PendingDiscarded == NoPending

FeedWrite(c) ==
    /\ Alive /\ pc = "idle" /\ state = "SpeculativeParsing"
    /\ ncalls < MaxCalls
    /\ ncalls' = ncalls + 1
    /\ document_write_called' = DocumentWriteCalled
    /\ pending_result' = PendingDiscarded
    /\ FeedWriteApply(TokFeed([stack |-> tokenizer.stack,
                               w |-> NoWorldSink(tokenizer.sink)], winput \o c))
    /\ RefAdvance(RefFeed(refTok, winput \o c))
    /\ wrote' = Append(wrote, winput \o c)
    /\ written' = written \cup {wgen}
    /\ UNCHANGED <<state, waiting_on_script, executor, pc, msg, input,
                   to_parser, to_main, workerVars, wgen, specInput,
                   preSnap, confirmed, blocked, misuse, dropped, deferred, workerLogs, sent,
                   context>>

\* -------------------------------------- Tokenizer::start_speculative_parsing
StartSpeculativeParsing ==
    /\ Alive /\ pc = "idle" /\ state = "ExecutingParseOps"
    /\ ncalls < MaxCalls
    /\ ncalls' = ncalls + 1
    /\ to_parser' = Append(to_parser, ToParser("Feed", input, TRUE, NoTok))
    /\ sent' = sent + 1
    /\ wgen' = sent + 1
    /\ specInput' = input
    /\ wrote' = << >>
    /\ pc' = "start"
    /\ UNCHANGED <<state, tokenizer, document_write_called, waiting_on_script,
                   executor, pending_result, msg, ret, input, winput, to_main,
                   workerVars, panic, refVars, preSnap, written, confirmed,
                   blocked, misuse, dropped, deferred, workerLogs, minted, context>>

\* Mutant: the executor left in place is bound to the document too.
DummyExecutor_Doc == ExecutorNew(TRUE)

\* `ParseOperationExecutor::new(None)`, left in place of the executor.
DummyExecutor == ExecutorNew(FALSE)

\* Mutant: a new tokenizer is made, the snapshot is not used.
EmbeddedTokenizer_Fresh(sendable_tok, ex) ==
    [stack |-> << >>,
     sink |-> [SinkNew EXCEPT !.state = "ParsingDocWriteContents", !.executor = ex]]

\* Mutant: the rebuilt tokenizer's Sink buffers.
EmbeddedTokenizer_Buffering(sendable_tok, ex) ==
    [get_self_from_sendable(sendable_tok) EXCEPT !.sink.state = "BufferingParseOperations",
                                                 !.sink.executor = ex]

\* The tokenizer rebuilt from the snapshot takes the executor; a dummy
\* executor stays in the Tokenizer.
EmbeddedTokenizer(sendable_tok, ex) ==
    LET t == get_self_from_sendable(sendable_tok)
    IN [t EXCEPT !.sink.state = "ParsingDocWriteContents", !.sink.executor = ex]

StartRecv ==
    /\ Alive /\ pc = "start" /\ to_main # << >>
    /\ LET m == Head(to_main)
       IN IF m.type = "HtmlTokenizerInternalState"
          THEN /\ tokenizer' = EmbeddedTokenizer(m.tok, executor)
               /\ executor' = DummyExecutor
               /\ state' = "SpeculativeParsing"
               /\ preSnap' = m.tok
               /\ pc' = "idle"
               /\ panic' = panic
               /\ document_write_called' = FALSE
               /\ waiting_on_script' = FALSE
               /\ blocked' = FALSE
          ELSE /\ panic' = "start_speculative_parsing: unreachable"
               /\ UNCHANGED <<tokenizer, executor, state, preSnap, pc,
                              document_write_called, waiting_on_script, blocked>>
    /\ to_main' = Tail(to_main)
    /\ UNCHANGED <<pending_result, msg, ret, driverVars, to_parser, workerVars,
                   refVars, wgen, specInput, wrote, written, confirmed, misuse, dropped, deferred,
                   workerLogs, minted, context, sent>>

\* ---------------------------------------- Tokenizer::end_speculative_parsing
\* `*waiting_on_script = ...`, where waiting_on_script is bound by a pattern
\* that matches self.state by value: what is assigned is the field of the
\* stored state or a copy of it, whichever the build makes of the binding.
FlagOutcomes(value) == {value, waiting_on_script}

\* Called while a parsing-blocking script is still pending: record it, return.
EndSpeculativeParsingBlocked ==
    /\ Alive /\ pc = "idle" /\ state = "SpeculativeParsing"
    /\ waiting_on_script' \in FlagOutcomes(TRUE)
    /\ blocked' = TRUE
    /\ deferred' = waiting_on_script'
    /\ UNCHANGED <<state, tokenizer, document_write_called, executor,
                   pending_result, pc, msg, ret, driverVars, to_parser, to_main,
                   workerVars, panic, refVars, wgen, specInput, preSnap, wrote,
                   written, confirmed, misuse, dropped, workerLogs, minted, context, sent>>

\* Mutant: the flag keeps what an earlier call made of it.
FlagWritten_Stale(value) == waiting_on_script

\* The flag in old_state after `*waiting_on_script = value` of a call that
\* goes on, where value is false.  A build in which the assignment reaches
\* the stored field leaves value there; a build in which it reaches a copy
\* has never changed the field, which start_speculative_parsing set to
\* false: `value` in both.
FlagWritten(value) == value

\* `assert_eq!(waiting_on_script, false, ..)` on the flag of old_state.
AssertNotWaiting(flag) ==
    IF flag THEN "should not execute parse ops while waiting on script" ELSE panic

\* Called with no script pending: the state is replaced by ExecutingParseOps
\* and the call blocks on the result of the speculative Feed.
EndSpeculativeParsing ==
    /\ Alive /\ pc = "idle" /\ state = "SpeculativeParsing"
    /\ waiting_on_script' = FlagWritten(FALSE)
    /\ blocked' = FALSE
    /\ state' = "ExecutingParseOps"
    /\ panic' = AssertNotWaiting(FlagWritten(FALSE))
    /\ pc' = IF FlagWritten(FALSE) THEN pc ELSE "end_spec"
    /\ UNCHANGED <<tokenizer, document_write_called, executor, pending_result,
                   msg, ret, driverVars, to_parser, to_main, workerVars,
                   refVars, wgen, specInput, preSnap, wrote, written, confirmed,
                   misuse, dropped, deferred, workerLogs, minted, context, sent>>

\* Mutant: the window is never taken to be invalidated.
WindowInvalidated_Never == FALSE

\* `if document_write_called`
WindowInvalidated == document_write_called

\* Mutant: the snapshot received when the window started is sent back.
RestoreSnapshot_Pre == preSnap

\* `tokenizer.get_sendable()`: the state of the embedded tokenizer, as it is
\* after the document.write() calls it parsed.
RestoreSnapshot == get_sendable(tokenizer.stack, tokenizer.sink)

\* Mutant: without new data the buffer is left consumed.
update_with_new_data_Consumed(some, data) == IF some THEN data ELSE << >>

\* `input.update_with_new_data(..)`: with Some(data) the buffer becomes
\* data; with None it goes back to what it was when
\* notify_speculative_parsing_has_started() was called on it, which is what
\* specInput holds.
update_with_new_data(some, data) == IF some THEN data ELSE specInput

\* The bad case: the script called document.write.
EndSpecInvalidated ==
    /\ Alive /\ pc = "end_spec" /\ to_main # << >>
    /\ WindowInvalidated
    /\ to_main' = Tail(to_main)
    /\ executor' = tokenizer.sink.executor
    /\ to_parser' = Append(to_parser,
            ToParser("RestoreInternalState", << >>, FALSE, RestoreSnapshot))
    /\ sent' = sent + 1
    /\ panic' = IF pending_result.some THEN "assert pending_result.is_none" ELSE "none"
    /\ tokenizer' = NoEmbedded
    /\ document_write_called' = FALSE
    /\ input' = update_with_new_data(FALSE, << >>)
    /\ pc' = "idle"
    /\ deferred' = FALSE
    /\ UNCHANGED <<state, waiting_on_script, pending_result, msg, ret,
                   winput, ncalls, workerVars, refVars, wgen, specInput, preSnap,
                   wrote, written, confirmed, blocked, misuse, dropped, workerLogs,
                   minted, context>>

\* The happy case: ask for the buffered operations.
EndSpecConfirmed ==
    /\ Alive /\ pc = "end_spec" /\ to_main # << >>
    /\ ~WindowInvalidated
    /\ msg' = Head(to_main)
    /\ to_main' = Tail(to_main)
    /\ executor' = tokenizer.sink.executor
    /\ tokenizer' = [tokenizer EXCEPT !.sink.executor = executor]
    /\ to_parser' = Append(to_parser, ToParser("FlushTreeOps", << >>, FALSE, NoTok))
    /\ sent' = sent + 1
    /\ pc' = "end_spec_ops"
    /\ UNCHANGED <<state, document_write_called, waiting_on_script,
                   pending_result, ret, driverVars, workerVars, panic, refVars,
                   windowVars, workerLogs, minted, context>>

Reverse(q) == [i \in 1..Len(q) |-> q[Len(q) + 1 - i]]

\* Mutant: the batch is replayed back to front.
ReplayOps_Reversed(ex, ops) == ExecAll(ex, Reverse(ops))

\* Mutant: the batch is replayed twice.
ReplayOps_Twice(ex, ops) == ExecAll(ex, ops \o ops)

\* `speculative_operations.into_iter().for_each(process_operation)`
ReplayOps(ex, ops) == ExecAll(ex, ops)

\* Mutant: whatever the held result was, the pending result is Ok.
EndSpecResult_Ok(ex, m) == [panic |-> "none", pending |-> Pending(NoScript)]

\* The result held in `msg` becomes the pending result.
EndSpecResult(ex, m) ==
    CASE m.type = "TokenizerResultDone" ->
            [panic |-> IF m.speculative_parsing_mode THEN "none"
                       ELSE "assert speculative_parsing_mode",
             pending |-> Pending(NoScript)]
      [] m.type = "TokenizerResultScript" ->
            [panic |-> IF m.speculative_parsing_mode THEN get_node(ex, m.script).err
                       ELSE "assert speculative_parsing_mode",
             pending |-> Pending(m.script)]
      [] OTHER -> [panic |-> "end_speculative_parsing: unreachable",
                   pending |-> pending_result]

\* ex is the executor after the replay, r what the held result came to.
EndSpecOpsApply(ex, r) ==
    /\ executor' = ex
    /\ panic' = IF ex.err # "none" THEN ex.err ELSE r.panic
    /\ pending_result' = r.pending
    /\ input' = update_with_new_data(TRUE, msg.updated_input)
    /\ pc' = "idle"

\* Mutant: the script of the held result is looked up before the replay.
EndSpecOpsReplayed_LookupFirst(ex) == EndSpecOpsApply(ex, EndSpecResult(executor, msg))

EndSpecOpsReplayed(ex) == EndSpecOpsApply(ex, EndSpecResult(ex, msg))

EndSpecOps ==
    /\ Alive /\ pc = "end_spec_ops" /\ to_main # << >>
    /\ IF Head(to_main).type # "SpeculativeParseOps"
       THEN /\ panic' = "parser thread sent unexpected response"
            /\ UNCHANGED <<executor, pending_result, input, pc, refVars>>
       ELSE /\ EndSpecOpsReplayed(ReplayOps(executor, Head(to_main).ops))
            /\ RefAdvance(RefFeed(refTok, specInput))
    /\ to_main' = Tail(to_main)
    /\ msg' = NoMsg
    /\ tokenizer' = NoEmbedded
    /\ confirmed' = confirmed \cup {wgen}
    /\ deferred' = FALSE
    /\ UNCHANGED <<state, document_write_called, waiting_on_script, ret, winput,
                   ncalls, to_parser, workerVars, wgen, specInput, preSnap,
                   wrote, written, blocked, misuse, dropped, workerLogs, minted, context, sent>>

\* --------------------------------------------------------- Tokenizer::end
End ==
    /\ Alive /\ pc = "idle" /\ state = "ExecutingParseOps"
    /\ to_parser' = Append(to_parser, ToParser("End", << >>, FALSE, NoTok))
    /\ sent' = sent + 1
    /\ pc' = "end"
    /\ RefAdvance(RefEnd(refTok))
    /\ UNCHANGED <<state, tokenizer, document_write_called, waiting_on_script,
                   executor, pending_result, msg, ret, driverVars, to_main,
                   workerVars, panic, windowVars, workerLogs, minted, context>>

EndRecvApply(ex, m) ==
    CASE m.type = "ProcessOperation" ->
            executor' = ex /\ panic' = ex.err /\ pc' = "end"
      [] m.type = "End" ->
            executor' = executor /\ panic' = panic /\ pc' = "ended"
      [] OTHER ->
            executor' = executor /\ panic' = "end: unreachable" /\ pc' = pc

EndRecv ==
    /\ Alive /\ pc = "end" /\ to_main # << >>
    /\ EndRecvApply(IF Head(to_main).type = "ProcessOperation"
                    THEN ExecProcessOperation(executor, Head(to_main).op)
                    ELSE executor,
                    Head(to_main))
    /\ to_main' = Tail(to_main)
    /\ UNCHANGED <<state, tokenizer, document_write_called, waiting_on_script,
                   pending_result, msg, ret, driverVars, to_parser, workerVars,
                   refVars, windowVars, workerLogs, minted, context, sent>>

\* ------------------------------------------------- run: the parser thread
WorkerHas(type) ==
    /\ Alive /\ running /\ to_parser # << >>
    /\ Head(to_parser).type = type

\* Mutant: no Feed is taken to be speculative.
BeginFeed_Never(tok, spec) == [sink |-> tok.sink, out |-> << >>]

\* Mutant: every Feed is taken to be speculative.
BeginFeed_Always(tok, spec) ==
    [sink |-> [tok.sink EXCEPT !.state = "BufferingParseOperations", !.queue = << >>],
     out |-> <<MsgInternalState(get_sendable(tok.stack, tok.sink))>>]

\* `if should_parse_speculatively`: snapshot, switch the Sink to buffering,
\* send the snapshot.
BeginFeed(tok, spec) ==
    IF spec
    THEN [sink |-> [tok.sink EXCEPT !.state = "BufferingParseOperations",
                                    !.queue = << >>],
          out |-> <<MsgInternalState(get_sendable(tok.stack, tok.sink))>>]
    ELSE [sink |-> tok.sink, out |-> << >>]

\* Mutant: the result never says that the Feed was speculative.
FeedResult_NeverSpeculative(r, spec) ==
    IF r.script = NoScript THEN MsgDone(r.rest, FALSE)
    ELSE MsgScript(r.script, r.rest, FALSE)

\* The reply that ends a Feed.
FeedResult(r, spec) ==
    IF r.script = NoScript THEN MsgDone(r.rest, spec)
    ELSE MsgScript(r.script, r.rest, spec)

World(sink, out, gen) == [sink |-> sink, out |-> out, panic |-> "none", gen |-> gen]

Streamed(out) == OpsOf(SelectSeq(out, LAMBDA x : x.type = "ProcessOperation"))

Buffered(before, after) == SubSeq(after.queue, Len(before.queue) + 1, Len(after.queue))

\* Mutant: the tokenizer forgets its open elements between messages.
WorkerRan_Forgets(t0, r, out, req) ==
    /\ html_tokenizer' = [stack |-> << >>, sink |-> r.w.sink]
    /\ to_main' = to_main \o out
    /\ wlog' = wlog \o LogOf(out, req)
    /\ produced' = produced \o Streamed(r.w.out) \o Buffered(t0, r.w.sink)
    /\ minted' = minted \o Minted(t0.next_parse_node_id, r.w.sink.next_parse_node_id, req)

\* The parser thread's tokenizer, channel and history after a handler: t0 is
\* the tokenizer the handler started from (after BeginFeed), r what its run
\* left, out everything the handler sent.
WorkerRan(t0, r, out, req) ==
    /\ html_tokenizer' = [stack |-> r.stack, sink |-> r.w.sink]
    /\ to_main' = to_main \o out
    /\ wlog' = wlog \o LogOf(out, req)
    /\ produced' = produced \o Streamed(r.w.out) \o Buffered(t0, r.w.sink)
    /\ minted' = minted \o Minted(t0.next_parse_node_id, r.w.sink.next_parse_node_id, req)

\* Mutant: the Feed handler sends no result.
WorkerFed_NoResult(b, r, spec, req) == WorkerRan(b.sink, r, r.w.out, req)

\* Mutant: the Feed handler sends its result twice.
WorkerFed_TwoResults(b, r, spec, req) ==
    WorkerRan(b.sink, r, r.w.out \o <<FeedResult(r, spec), FeedResult(r, spec)>>, req)

WorkerFed(b, r, spec, req) == WorkerRan(b.sink, r, Append(r.w.out, FeedResult(r, spec)), req)

\* What the tokenizer makes of the input: in the Plaintext state every
\* letter is text.
Letters(inp) == IF plaintext THEN [i \in 1..Len(inp) |-> "x"] ELSE inp

WorkerFeedBegun(b, m, req) ==
    WorkerFed(b, TokFeed([stack |-> html_tokenizer.stack, w |-> World(b.sink, b.out, req)],
                         Letters(m.input)),
              m.should_parse_speculatively, req)

WorkerFeed ==
    /\ WorkerHas("Feed")
    /\ WorkerFeedBegun(BeginFeed(html_tokenizer, Head(to_parser).should_parse_speculatively),
                       Head(to_parser), Len(hlog) + 1)
    /\ hlog' = Append(hlog, [type |-> "Feed",
                             should_parse_speculatively |->
                                 Head(to_parser).should_parse_speculatively,
                             input |-> Head(to_parser).input])
    /\ to_parser' = Tail(to_parser)
    /\ UNCHANGED <<mainVars, driverVars, running, plaintext, panic, refVars,
                   windowVars, sent, context>>

WorkerFlushed(w, req) ==
    /\ html_tokenizer' = [html_tokenizer EXCEPT !.sink = w.sink]
    /\ to_main' = to_main \o w.out
    /\ panic' = w.panic
    /\ wlog' = wlog \o LogOf(w.out, req)

WorkerFlushTreeOps ==
    /\ WorkerHas("FlushTreeOps")
    /\ WorkerFlushed(flush_tree_ops(World(html_tokenizer.sink, << >>, Len(hlog) + 1)),
                     Len(hlog) + 1)
    /\ hlog' = Append(hlog, [type |-> "FlushTreeOps", should_parse_speculatively |-> FALSE,
                             input |-> << >>])
    /\ to_parser' = Tail(to_parser)
    /\ UNCHANGED <<mainVars, driverVars, running, plaintext, refVars, windowVars, produced,
                   minted, context, sent>>

\* Mutant: the message is ignored, the tokenizer only stops buffering.
Restored_Keep(old, tok_internal_state) ==
    [old EXCEPT !.sink.state = "SendingParseOps", !.sink.queue = << >>]

\* The tokenizer is replaced by the one rebuilt from the message.
Restored(old, tok_internal_state) == get_self_from_sendable(tok_internal_state)

\* The rebuilt tokenizer is in the state it had at the snapshot: Plaintext
\* only if that was set before, which the snapshot of this model does not say.
RestoredPlaintext == IF plaintext THEN BOOLEAN ELSE {FALSE}

WorkerRestoreInternalState ==
    /\ WorkerHas("RestoreInternalState")
    /\ plaintext' \in RestoredPlaintext
    /\ html_tokenizer' = Restored(html_tokenizer, Head(to_parser).tok_internal_state)
    /\ hlog' = Append(hlog, [type |-> "RestoreInternalState", should_parse_speculatively |-> FALSE,
                             input |-> << >>])
    /\ to_parser' = Tail(to_parser)
    /\ UNCHANGED <<mainVars, driverVars, to_main, running, panic, refVars,
                   windowVars, produced, wlog, minted, context, sent>>

\* Mutant: the parser thread ends without sending End.
WorkerEnded_Silent(r, req) == WorkerRan(html_tokenizer.sink, r, r.w.out, req)

WorkerEnded(r, req) == WorkerRan(html_tokenizer.sink, r, Append(r.w.out, MsgEnd), req)

WorkerEnd ==
    /\ WorkerHas("End")
    /\ WorkerEnded(TokEnd([stack |-> html_tokenizer.stack,
                           w |-> World(html_tokenizer.sink, << >>, Len(hlog) + 1)]),
                   Len(hlog) + 1)
    /\ hlog' = Append(hlog, [type |-> "End", should_parse_speculatively |-> FALSE,
                             input |-> << >>])
    /\ running' = FALSE
    /\ to_parser' = Tail(to_parser)
    /\ UNCHANGED <<mainVars, driverVars, plaintext, panic, refVars, windowVars, sent,
                   context>>

\* ------------------------------------------------------------ the system
Inputs == Chunks \cup {<< >>}

Next ==
    \/ \E c \in Inputs : FeedPending(c)
    \/ \E c \in Inputs : FeedSend(c)
    \/ FeedRecv
    \/ \E c \in Inputs : FeedWrite(c)
    \/ StartSpeculativeParsing
    \/ StartRecv
    \/ EndSpeculativeParsingBlocked
    \/ EndSpeculativeParsing
    \/ EndSpecInvalidated
    \/ EndSpecConfirmed
    \/ EndSpecOps
    \/ End
    \/ EndRecv
    \/ WorkerFeed
    \/ WorkerFlushTreeOps
    \/ WorkerRestoreInternalState
    \/ WorkerEnd

Spec == Init /\ [][Next]_vars

\* Both threads are scheduled: the parser thread handles a message that is in
\* its channel, and a recv of the main thread returns once a message is there.
\* The parser thread has a message to handle; it handled one.
WorkerEnabled == Alive /\ running /\ to_parser # << >>

WorkerStepped == Len(hlog') = Len(hlog) + 1

\* The main thread is in a recv and a message is there; it received one.
MainRecvEnabled ==
    /\ Alive /\ to_main # << >>
    /\ pc \in {"feed", "start", "end_spec", "end_spec_ops", "end"}

MainReceived == Len(to_main') < Len(to_main)

Fairness ==
    /\ []<>(~WorkerEnabled) \/ []<><<WorkerStepped>>_vars
    /\ []<>(~MainRecvEnabled) \/ []<><<MainReceived>>_vars

LiveSpec == Spec /\ Fairness

\* ------------------------------ calls in a state that does not list them
\* Mutant: in ExecutingParseOps the call goes on to the recv as it does in
\* SpeculativeParsing.
EndSpeculativeParsingUnlisted_Proceeds ==
    /\ Alive /\ pc = "idle" /\ state = "ExecutingParseOps"
    /\ misuse' = "end_speculative_parsing"
    /\ pc' = "end_spec"
    /\ UNCHANGED <<state, tokenizer, document_write_called, waiting_on_script,
                   executor, pending_result, msg, ret, driverVars, to_parser,
                   to_main, workerVars, panic, refVars, wgen, specInput, preSnap,
                   wrote, written, confirmed, blocked, dropped, deferred, workerLogs, minted, context, sent>>

\* end_speculative_parsing in ExecutingParseOps: the first match on
\* self.state ends in `TokenizerState::ExecutingParseOps => unreachable!()`.
EndSpeculativeParsingUnlisted ==
    /\ Alive /\ pc = "idle" /\ state = "ExecutingParseOps"
    /\ misuse' = "end_speculative_parsing"
    /\ panic' = "end_speculative_parsing: unreachable"
    /\ UNCHANGED <<mainVars, driverVars, to_parser, to_main, workerVars, refVars,
                   wgen, specInput, preSnap, wrote, written, confirmed, blocked, dropped, deferred,
                   workerLogs, minted, context, sent>>

\* start_speculative_parsing in SpeculativeParsing: the function does not
\* look at self.state; it sends the speculative Feed and goes to its recv.
StartSpeculativeParsingUnlisted ==
    /\ Alive /\ pc = "idle" /\ state = "SpeculativeParsing"
    /\ misuse' = "start_speculative_parsing"
    /\ to_parser' = Append(to_parser, ToParser("Feed", input, TRUE, NoTok))
    /\ sent' = sent + 1
    /\ pc' = "start"
    /\ UNCHANGED <<state, tokenizer, document_write_called, waiting_on_script,
                   executor, pending_result, msg, ret, driverVars, to_main,
                   workerVars, panic, refVars, wgen, specInput, preSnap, wrote,
                   written, confirmed, blocked, dropped, deferred, workerLogs, minted, context>>

\* end() in SpeculativeParsing: the function does not look at self.state; it
\* sends End and goes to its recv.
EndUnlisted ==
    /\ Alive /\ pc = "idle" /\ state = "SpeculativeParsing"
    /\ misuse' = "end"
    /\ to_parser' = Append(to_parser, ToParser("End", << >>, FALSE, NoTok))
    /\ sent' = sent + 1
    /\ pc' = "end"
    /\ UNCHANGED <<state, tokenizer, document_write_called, waiting_on_script,
                   executor, pending_result, msg, ret, driverVars, to_main,
                   workerVars, panic, refVars, wgen, specInput, preSnap, wrote,
                   written, confirmed, blocked, dropped, deferred, workerLogs, minted, context>>

\* The program with a caller that also makes these calls.
NextUnlisted ==
    \/ Next
    \/ EndSpeculativeParsingUnlisted
    \/ StartSpeculativeParsingUnlisted
    \/ EndUnlisted

SpecUnlisted == Init /\ [][NextUnlisted]_vars

LiveSpecUnlisted == SpecUnlisted /\ Fairness

\* ------------------------------------------------------------ sanity
\* ------------------------------------- the program fed restructuring tokens
\* Inputs with the tokens of TreeStep; the script of the second one leaves
\* the rest of it for the next feed or for speculation.
TreeInputs == { <<"e", "a", "f">>, <<"s", "x", "p", "r", "a", "f">> }

NextTree ==
    \/ \E c \in TreeInputs : FeedPending(c)
    \/ \E c \in TreeInputs : FeedSend(c)
    \/ FeedRecv
    \/ \E c \in TreeInputs : FeedWrite(c)
    \/ StartSpeculativeParsing
    \/ StartRecv
    \/ EndSpeculativeParsingBlocked
    \/ EndSpeculativeParsing
    \/ EndSpecInvalidated
    \/ EndSpecConfirmed
    \/ EndSpecOps
    \/ End
    \/ EndRecv
    \/ WorkerFeed
    \/ WorkerFlushTreeOps
    \/ WorkerRestoreInternalState
    \/ WorkerEnd

SpecTree == Init /\ [][NextTree]_vars

\* ------------------------------------------- Tokenizer::set_plaintext_state
\* The main thread sends the message and returns; it counts as a call of the
\* driver.
SetPlaintextState ==
    /\ Alive /\ pc = "idle"
    /\ ncalls < MaxCalls
    /\ ncalls' = ncalls + 1
    /\ to_parser' = Append(to_parser, ToParser("SetPlainTextState", << >>, FALSE, NoTok))
    /\ sent' = sent + 1
    /\ UNCHANGED <<mainVars, input, winput, to_main, workerVars, panic, refVars,
                   windowVars, workerLogs, minted, context>>

\* Mutant: the handler also puts the Sink back to sending.
PlaintextSet_Sending(tok) == [tok EXCEPT !.sink.state = "SendingParseOps"]

\* `html_tokenizer.set_plaintext_state()` reaches the tokenizer, not the Sink.
PlaintextSet(tok) == tok

WorkerSetPlainTextState ==
    /\ WorkerHas("SetPlainTextState")
    /\ plaintext' = TRUE
    /\ html_tokenizer' = PlaintextSet(html_tokenizer)
    /\ hlog' = Append(hlog, [type |-> "SetPlainTextState",
                             should_parse_speculatively |-> FALSE, input |-> << >>])
    /\ to_parser' = Tail(to_parser)
    /\ UNCHANGED <<mainVars, driverVars, to_main, running, panic, refVars,
                   windowVars, produced, wlog, minted, context, sent>>

NextPlaintext ==
    \/ Next
    \/ SetPlaintextState
    \/ WorkerSetPlainTextState

SpecPlaintext == Init /\ [][NextPlaintext]_vars

\* ------------------------------------------- the channels are disconnected
\* After `break` run returns and drops its ends of the two channels, one
\* after the other: html_tokenizer with the Sink's clone of the sender, then
\* the parameters last to first, receiver before sender; the channel to the
\* main thread is disconnected when the last sender is gone.
WorkerDrop(end) ==
    /\ Alive /\ ~running /\ end \notin dropped
    /\ end = "sender" => "receiver" \in dropped
    /\ dropped' = dropped \cup {end}
    /\ UNCHANGED <<mainVars, driverVars, to_parser, to_main, workerVars, panic,
                   refVars, wgen, specInput, preSnap, wrote, written, confirmed,
                   blocked, misuse, deferred, workerLogs, minted, context, sent>>

\* Mutant: a send on a channel whose receiver is gone is taken to succeed.
SendTo_Lenient(type, inp, spec, at) ==
    /\ to_parser' = Append(to_parser, ToParser(type, inp, spec, NoTok))
    /\ sent' = sent + 1
    /\ pc' = at
    /\ panic' = IF "receiver" \in dropped THEN "none" ELSE panic

\* `self.html_tokenizer_sender.send(..).unwrap()` and on to the recv at `at`:
\* the send fails when run has dropped its receiver.
SendTo(type, inp, spec, at) ==
    IF "receiver" \in dropped
    THEN /\ panic' = "send: called unwrap on an Err value"
         /\ UNCHANGED <<to_parser, sent, pc>>
    ELSE /\ to_parser' = Append(to_parser, ToParser(type, inp, spec, NoTok))
         /\ sent' = sent + 1
         /\ pc' = at
         /\ panic' = panic

\* A call made after end() has returned; feed() with no pending result.
CallAfterEnd(type, inp, spec, at) ==
    /\ Alive /\ pc = "ended"
    /\ ncalls < MaxCalls
    /\ ncalls' = ncalls + 1
    /\ SendTo(type, inp, spec, at)
    /\ UNCHANGED <<state, tokenizer, document_write_called, waiting_on_script,
                   executor, pending_result, msg, ret, input, winput, to_main,
                   workerVars, refVars, windowVars, workerLogs, minted, context>>

FeedAfterEnd == ~pending_result.some /\ CallAfterEnd("Feed", input, FALSE, "feed")

StartSpeculativeParsingAfterEnd == CallAfterEnd("Feed", input, TRUE, "start")

EndAfterEnd == CallAfterEnd("End", << >>, FALSE, "end")

\* `self.receiver.recv().expect(..)` with nothing in the channel and every
\* sender gone.
MainRecvDisconnected ==
    /\ Alive /\ to_main = << >> /\ "sender" \in dropped
    /\ pc \in {"feed", "start", "end_spec", "end_spec_ops", "end"}
    /\ panic' = "Unexpected channel panic in main thread."
    /\ UNCHANGED <<mainVars, driverVars, to_parser, to_main, workerVars,
                   refVars, windowVars, workerLogs, minted, context, sent>>

\* The Tokenizer is dropped between two calls, and with it its sender.
DropTokenizer ==
    /\ Alive /\ pc = "idle"
    /\ pc' = "dropped"
    /\ UNCHANGED <<state, tokenizer, document_write_called, waiting_on_script,
                   executor, pending_result, msg, ret, driverVars, to_parser,
                   to_main, workerVars, panic, refVars, windowVars, workerLogs,
                   minted, context, sent>>

\* `receiver.recv().expect(..)` in run with nothing in the channel and the
\* Tokenizer's sender gone.
WorkerRecvDisconnected ==
    /\ Alive /\ running /\ to_parser = << >> /\ pc = "dropped"
    /\ panic' = "Unexpected channel panic in html parser thread"
    /\ UNCHANGED <<mainVars, driverVars, to_parser, to_main, workerVars,
                   refVars, windowVars, workerLogs, minted, context, sent>>

NextDisconnect ==
    \/ Next
    \/ \E end \in {"receiver", "sender"} : WorkerDrop(end)
    \/ FeedAfterEnd
    \/ StartSpeculativeParsingAfterEnd
    \/ EndAfterEnd
    \/ MainRecvDisconnected
    \/ DropTokenizer
    \/ WorkerRecvDisconnected

SpecDisconnect == Init /\ [][NextDisconnect]_vars

\* The threads are scheduled: the parser thread handles a message it has,
\* run gets to the end of its body, a recv on a disconnected channel returns.
DisconnectedEnabled ==
    \/ /\ to_main = << >> /\ "sender" \in dropped
       /\ pc \in {"feed", "start", "end_spec", "end_spec_ops", "end"}
    \/ running /\ to_parser = << >> /\ pc = "dropped"

ThreadEnabled ==
    /\ Alive
    /\ \/ running /\ to_parser # << >>
       \/ ~running /\ dropped # {"receiver", "sender"}
       \/ DisconnectedEnabled

ThreadStepped ==
    \/ Len(hlog') = Len(hlog) + 1
    \/ dropped' # dropped
    \/ panic' # panic

LiveSpecDisconnect ==
    /\ SpecDisconnect
    /\ []<>(~ThreadEnabled) \/ []<><<ThreadStepped>>_vars

NoPanic == panic = "none"

\* ================================================================ claims
\* The executor bound to the document, whoever holds it, and what was
\* applied to it.
RealExecutor == IF Found(executor, 0) THEN executor ELSE tokenizer.sink.executor

Applied == RealExecutor.log

IsPrefix(a, b) == Len(a) <= Len(b) /\ SubSeq(b, 1, Len(a)) = a

FromWorker(ops) == SelectSeq(ops, LAMBDA o : o.gen # 0)

Kept(ops) == SelectSeq(ops, LAMBDA o : o.gen \notin written)

OfGen(ops, g) == SelectSeq(ops, LAMBDA o : o.gen = g)

\* No call in progress, nothing in flight, not speculating.
Quiescent ==
    /\ pc \in {"idle", "ended"} /\ state = "ExecutingParseOps"
    /\ to_parser = << >> /\ to_main = << >>

\* C1 as stated: the operations of the parser thread that were applied are, in
\* order, the operations the parser thread produced, none skipped.
C1_Original == IsPrefix(FromWorker(Applied), produced)

\* C1: the operations of the parser thread that were applied are, in order,
\* the operations it produced outside the speculative windows in which
\* document.write was called (those are discarded), streamed or replayed in
\* one batch; nothing else is skipped and nothing is reordered.
C1_AppliedInProductionOrder ==
    /\ IsPrefix(FromWorker(Applied), Kept(produced))
    /\ Quiescent => FromWorker(Applied) = Kept(produced)

\* A quiescent state in which streamed operations and a replayed batch were
\* applied, and a window with buffered operations was discarded.
C1_Witness ==
    /\ Quiescent
    /\ \E g \in confirmed : OfGen(Applied, g) # << >>
    /\ \E i \in DOMAIN Applied : Applied[i].gen \notin (confirmed \cup {0})
    /\ \E g \in written : OfGen(produced, g) # << >>

\* C2: when the last window ended confirmed, every operation buffered in it
\* was applied exactly once, in order, and everything applied so far is what
\* the reference parser, fed the same input and never speculating, applied.
C2_SpeculationNoOp ==
    (pc = "idle" /\ state = "ExecutingParseOps" /\ wgen \in confirmed) =>
        /\ OfGen(executor.log, wgen) = OfGen(produced, wgen)
        /\ StripAll(executor.log) = refOps

C2_Witness ==
    /\ pc = "idle" /\ state = "ExecutingParseOps" /\ wgen \in confirmed
    /\ written = {}
    /\ Len(OfGen(produced, wgen)) >= 2
    /\ Len(executor.log) > Len(OfGen(produced, wgen))

RestorePending == \E i \in DOMAIN to_parser : to_parser[i].type = "RestoreInternalState"

\* C3: no operation buffered in a window in which document.write was called
\* is ever applied; once such a window is ended the facade is executing
\* again without the embedded tokenizer, and the parser thread holds none of the
\* window's operations once it has handled RestoreInternalState.
C3_RollbackDiscards ==
    /\ \A i \in DOMAIN Applied : Applied[i].gen \notin written
    /\ (state = "ExecutingParseOps" /\ pc # "end_spec" /\ wgen \in written) =>
          /\ tokenizer = NoEmbedded
          /\ ~RestorePending =>
                \A i \in DOMAIN html_tokenizer.sink.queue :
                    html_tokenizer.sink.queue[i].gen \notin written

C3_Witness ==
    /\ pc = "idle" /\ state = "ExecutingParseOps" /\ wgen \in written
    /\ OfGen(produced, wgen) # << >>
    /\ \E i \in DOMAIN Applied : Applied[i].gen > wgen

SnapOf(tok) == get_sendable(tok.stack, tok.sink)

\* The snapshot `snap` after a tokenizer rebuilt from it parsed the inputs ws.
RECURSIVE SnapAfter(_, _)
SnapAfter(snap, ws) ==
    IF ws = << >> THEN snap
    ELSE SnapAfter(SnapOf(RefFeed(get_self_from_sendable(snap), Head(ws)).tok), Tail(ws))

\* The parser thread has just handled the RestoreInternalState of the last window.
JustRestored ==
    /\ Len(hlog) = wgen + 1
    /\ hlog[Len(hlog)].type = "RestoreInternalState"

\* The RestoreInternalState of the last window, while it is in the channel:
\* it is the message sent next after the window's Feed.
RestoreMessages ==
    {to_parser[i].tok_internal_state : i \in {j \in DOMAIN to_parser :
                                                 /\ to_parser[j].type = "RestoreInternalState"
                                                 /\ Len(hlog) + j = wgen + 1}}

\* C4 as stated: RestoreInternalState carries the snapshot the parser thread
\* sent when the window started, and the parser thread is back in that state
\* once it has handled the message.
C4_Original ==
    /\ \A t \in RestoreMessages : t = preSnap
    /\ JustRestored => SnapOf(html_tokenizer) = preSnap

\* C4: RestoreInternalState carries the state of the embedded tokenizer: the
\* snapshot of the window's start advanced by every document.write() input
\* parsed in the window, next handle included; the parser thread is in that
\* state, sending, once it has handled the message.
C4_RestoreCarriesEmbeddedState ==
    /\ \A t \in RestoreMessages : t = SnapAfter(preSnap, wrote)
    /\ JustRestored =>
          /\ SnapOf(html_tokenizer) = SnapAfter(preSnap, wrote)
          /\ html_tokenizer.sink.state = "SendingParseOps"

C4_Witness ==
    /\ JustRestored
    /\ wlog[Len(wlog)].req = wgen
    /\ SnapOf(html_tokenizer) # preSnap
    /\ html_tokenizer.sink.next_parse_node_id > preSnap.sink.next_parse_node_id
    /\ html_tokenizer.stack # preSnap.stack

\* C5: after a window in which document.write was called has been ended and
\* parsing has gone on, what was applied is what the reference parser applied
\* for the written content followed by the remaining input, and the written
\* content's operations come before those of the remaining input.
C5_RollbackEquivalence ==
    (pc = "idle" /\ state = "ExecutingParseOps" /\ wgen \in written) =>
        /\ StripAll(executor.log) = refOps
        /\ \A i, j \in DOMAIN executor.log :
              (executor.log[i].gen = 0 /\ executor.log[j].gen > wgen) => i < j

C5_Witness ==
    /\ pc = "idle" /\ state = "ExecutingParseOps" /\ wgen \in written
    /\ OfGen(produced, wgen) # << >>
    /\ OfGen(executor.log, 0) # << >>
    /\ \E i \in DOMAIN executor.log : executor.log[i].gen > wgen + 1

Increasing(ids) == \A i, j \in DOMAIN ids : i < j => ids[i] < ids[j]

IdsOf(ms) == [i \in DOMAIN ms |-> ms[i].id]

NodesOf(ops) == [i \in DOMAIN ops |-> ops[i].node]

Introduced(ops) == NodesOf(SelectSeq(ops, LAMBDA o : o.node # NONE))

Distinct(ids) == \A i, j \in DOMAIN ids : i # j => ids[i] # ids[j]

C7_NoDuplicateInsert ==
    /\ panic # "duplicate node id"
    /\ executor.err # "duplicate node id"
    /\ tokenizer.sink.executor.err # "duplicate node id"
    /\ Distinct(Introduced(Applied))
    /\ Cardinality(RealExecutor.nodes) >= Len(Introduced(Applied)) + 1

C7_Witness ==
    /\ Quiescent
    /\ written # {} /\ confirmed # {}
    /\ Len(Introduced(Applied)) >= 3

Holds(ex) == Found(ex, 0)

\* C8 as stated: in every state exactly one of the Tokenizer and the embedded
\* tokenizer's Sink holds the executor bound to the document: the Tokenizer
\* when executing, the Sink when speculating.
C8_Original ==
    /\ Holds(executor) # Holds(tokenizer.sink.executor)
    /\ state = "ExecutingParseOps" => Holds(executor)
    /\ state = "SpeculativeParsing" =>
          /\ Holds(tokenizer.sink.executor)
          /\ tokenizer.sink.state = "ParsingDocWriteContents"
          /\ executor = ExecutorNew(FALSE)

\* C8: exactly one of the two holds the executor bound to the document in
\* every state; it is the Tokenizer when executing and the Sink when
\* speculating, except inside end_speculative_parsing between the reset of
\* the state and the swap, where the state is ExecutingParseOps and the held
\* tokenizer's Sink still has it.
C8_SingleOwner ==
    /\ Holds(executor) # Holds(tokenizer.sink.executor)
    /\ (state = "ExecutingParseOps" /\ pc # "end_spec") => Holds(executor)
    /\ (state = "ExecutingParseOps" /\ pc = "end_spec") =>
          Holds(tokenizer.sink.executor)
    /\ state = "SpeculativeParsing" =>
          /\ Holds(tokenizer.sink.executor)
          /\ tokenizer.sink.state = "ParsingDocWriteContents"
          /\ executor = ExecutorNew(FALSE)

C8_Witness ==
    /\ state = "SpeculativeParsing" /\ pc = "idle"
    /\ document_write_called
    /\ Cardinality(tokenizer.sink.executor.nodes) >= 3
    /\ confirmed # {}

Refs(op) == {op.target, op.child} \ {NONE, TEXT}

Terminal(e) == e.type \in {"TokenizerResultDone", "TokenizerResultScript"}

ReplyTo(r) == SelectSeq(wlog, LAMBDA e : e.req = r)

\* A run of ProcessOperation messages, then one result.
FeedReplyShape(rep) ==
    /\ rep # << >>
    /\ Terminal(rep[Len(rep)])
    /\ \A i \in 1..(Len(rep) - 1) : rep[i].type = "ProcessOperation"

\* C10: the reply to a Feed that is not speculative is a run of
\* ProcessOperation messages and then one TokenizerResultDone or
\* TokenizerResultScript, which is the last message of the reply.
C10_FeedReply ==
    \A r \in DOMAIN hlog :
        (hlog[r].type = "Feed" /\ ~hlog[r].should_parse_speculatively) =>
            FeedReplyShape(ReplyTo(r))

C10_Witness ==
    /\ \E r \in DOMAIN hlog :
          /\ hlog[r].type = "Feed" /\ ~hlog[r].should_parse_speculatively
          /\ Len(ReplyTo(r)) >= 3
          /\ ReplyTo(r)[Len(ReplyTo(r))].type = "TokenizerResultScript"
    /\ \E r \in DOMAIN hlog :
          /\ hlog[r].type = "Feed" /\ ~hlog[r].should_parse_speculatively
          /\ ReplyTo(r)[Len(ReplyTo(r))].type = "TokenizerResultDone"

SpeculativeFeed(r) == hlog[r].type = "Feed" /\ hlog[r].should_parse_speculatively

\* The snapshot first, then neither a second one nor an operation.
SpeculativeReplyShape(rep) ==
    /\ rep # << >>
    /\ rep[1].type = "HtmlTokenizerInternalState"
    /\ \A i \in 2..Len(rep) :
          rep[i].type \notin {"HtmlTokenizerInternalState", "ProcessOperation"}

\* C11: a speculative Feed is answered by one HtmlTokenizerInternalState,
\* taken before any of the input is tokenized (no handle minted for the Feed
\* is in it); no ProcessOperation is sent for the Feed, and while the Sink is
\* buffering its queue is what was produced for the Feed, in order.
C11_SpeculativeFeedBuffers ==
    /\ \A r \in DOMAIN hlog : SpeculativeFeed(r) => SpeculativeReplyShape(ReplyTo(r))
    /\ html_tokenizer.sink.state = "BufferingParseOperations" =>
          /\ hlog # << >> /\ SpeculativeFeed(Len(hlog))
          /\ html_tokenizer.sink.queue = OfGen(produced, Len(hlog))
    /\ state = "SpeculativeParsing" =>
          \A i \in DOMAIN minted :
              minted[i].gen = wgen =>
                  /\ minted[i].id >= preSnap.sink.next_parse_node_id
                  /\ minted[i].id \notin DOMAIN preSnap.sink.parse_node_data

C11_Witness ==
    /\ state = "SpeculativeParsing"
    /\ html_tokenizer.sink.state = "BufferingParseOperations"
    /\ Len(html_tokenizer.sink.queue) >= 3
    /\ \E i \in DOMAIN minted : minted[i].gen = wgen
    /\ Len(ReplyTo(wgen)) = 2

\* Where in the order of sending the parser thread sent the batch for
\* message r, and the result of the Feed r.
BatchOf(r) == {i \in DOMAIN wlog : wlog[i].req = r /\ wlog[i].type = "SpeculativeParseOps"}

ResultOf(r) == {i \in DOMAIN wlog : wlog[i].req = r /\ Terminal(wlog[i])}

Flushed(r) == hlog[r].type = "FlushTreeOps"

\* C12 as stated: FlushTreeOps is answered by one SpeculativeParseOps, and the
\* result of the speculative Feed is sent after it.
C12_Original ==
    \A r \in DOMAIN hlog :
        Flushed(r) =>
            /\ Cardinality(BatchOf(r)) = 1
            /\ \A i \in BatchOf(r) : \E j \in ResultOf(r - 1) : j > i

\* C12: FlushTreeOps is answered by one SpeculativeParseOps and nothing else,
\* carrying the whole queue; the result of the speculative Feed was sent
\* before it, when that Feed ended, and the main thread holds it already
\* when it waits for the batch.
C12_FlushReply ==
    /\ \A r \in DOMAIN hlog :
          Flushed(r) =>
              /\ Len(ReplyTo(r)) = 1 /\ Cardinality(BatchOf(r)) = 1
              /\ r > 1 /\ SpeculativeFeed(r - 1)
              /\ Cardinality(ResultOf(r - 1)) = 1
              /\ \A i \in BatchOf(r) : \A j \in ResultOf(r - 1) : j < i
    /\ \A i \in DOMAIN to_main :
          to_main[i].type = "SpeculativeParseOps" =>
              /\ to_main[i].ops = OfGen(produced, wgen)
              /\ html_tokenizer.sink.queue = << >>
    /\ pc = "end_spec_ops" => Terminal(msg) /\ msg.speculative_parsing_mode

C12_Witness ==
    /\ pc = "end_spec_ops"
    /\ to_main # << >>
    /\ Head(to_main).type = "SpeculativeParseOps"
    /\ Len(Head(to_main).ops) >= 2
    /\ Flushed(Len(hlog))

Ended(r) == hlog[r].type = "End"

\* A run of ProcessOperation messages, then End.
EndReplyShape(rep) ==
    /\ rep # << >>
    /\ rep[Len(rep)].type = "End"
    /\ \A i \in 1..(Len(rep) - 1) : rep[i].type = "ProcessOperation"

EndAnswered ==
    /\ \A r \in DOMAIN hlog : Ended(r) => (r = Len(hlog) /\ ~running /\ EndReplyShape(ReplyTo(r)))
    /\ pc = "ended" =>
          /\ to_main = << >> /\ to_parser = << >> /\ ~running
          /\ Ended(Len(hlog))
          /\ OfGen(executor.log, Len(hlog)) = OfGen(produced, Len(hlog))
          /\ FromWorker(executor.log) = Kept(produced)

\* C13: End is answered by ProcessOperation messages and then one End, after
\* which the parser thread has stopped; when end() has returned every
\* operation sent before End was applied, in order; and end() called in
\* ExecutingParseOps always returns.
C13_EndTerminates == []EndAnswered /\ (pc = "end" ~> pc = "ended")

C13_Witness ==
    /\ pc = "ended"
    /\ Len(OfGen(executor.log, Len(hlog))) >= 2
    /\ written # {}

\* A step that is a call of feed(): the driver's call count goes up and the
\* call is not start_speculative_parsing.
FeedCalled == pc = "idle" /\ ncalls' = ncalls + 1 /\ pc' # "start"

PendingReturn ==
    IF pending_result.script # NoScript
    THEN Returned("Err", pending_result.script)
    ELSE Returned("Ok", NoScript)

\* What feed() does with a pending result: it returns it and clears it,
\* nothing is sent, received or applied, and the buffer it was given stays.
PendingTaken ==
    /\ ret' = PendingReturn
    /\ ~pending_result'.some
    /\ pc' = "idle"
    /\ \E c \in Inputs : input' = input \o c
    /\ UNCHANGED <<state, tokenizer, executor, to_parser, to_main, sent,
                   workerVars, workerLogs, winput>>

\* C14 as stated: a pending result is returned by the next feed() call,
\* whichever it is.
C14_Original == [][(FeedCalled /\ pending_result.some) => PendingTaken]_vars

\* C14: feed() in ExecutingParseOps with a pending result returns it, clears
\* it, sends and receives nothing, applies nothing and leaves its buffer; a
\* pending result is returned at most once, by the next feed() made in
\* ExecutingParseOps.
C14_PendingResultReturned ==
    [][(FeedCalled /\ state = "ExecutingParseOps" /\ pending_result.some) => PendingTaken]_vars

C14_Witness ==
    /\ pc = "idle" /\ state = "ExecutingParseOps"
    /\ wgen \in confirmed /\ sent = wgen + 1
    /\ ~pending_result.some
    /\ ret.kind = "Err"
    /\ ncalls >= 3

\* What feed() in SpeculativeParsing does besides parsing: the flag is set,
\* a pending result is dropped, nothing is sent or received.
WriteNoted ==
    /\ document_write_called'
    /\ ~pending_result'.some
    /\ pc' = "idle"
    /\ UNCHANGED <<state, to_parser, to_main, sent, workerVars, workerLogs>>

\* C15: feed() in SpeculativeParsing sets document_write_called, drops a
\* pending result and uses neither channel; the flag, once set, stays set
\* for as long as the state stays SpeculativeParsing.
C15_DocumentWriteLatches ==
    [][/\ (FeedCalled /\ state = "SpeculativeParsing") => WriteNoted
       /\ (document_write_called /\ state = "SpeculativeParsing"
             /\ state' = "SpeculativeParsing") => document_write_called']_vars

C15_Witness ==
    /\ state = "SpeculativeParsing" /\ pc = "idle"
    /\ document_write_called /\ waiting_on_script
    /\ Len(wrote) >= 2
    /\ confirmed # {} /\ ~pending_result.some

\* A step that is a call of end_speculative_parsing with a blocking script
\* pending.
BlockedCalled == blocked' /\ ~blocked

\* C16 as stated: end_speculative_parsing with a blocking script pending sets
\* waiting_on_script in the stored state and changes nothing else, and the
\* flag stays set until end_speculative_parsing is called again.
C16_Original ==
    /\ [](state = "SpeculativeParsing" /\ blocked => waiting_on_script)
    /\ [][BlockedCalled =>
            /\ waiting_on_script'
            /\ UNCHANGED <<state, tokenizer, document_write_called, executor,
                           pending_result, to_parser, to_main, sent, pc>>]_vars

\* end_speculative_parsing was called with a blocking script pending while
\* speculating.
C16_Witness == state = "SpeculativeParsing" /\ blocked /\ wgen > 0

\* The result the parser thread sent for request r.
TerminalOf(r) == wlog[CHOOSE i \in ResultOf(r) : TRUE]

\* A step that ends the confirmed path of end_speculative_parsing.
ConfirmedReturned == pc = "end_spec_ops" /\ pc' = "idle" /\ panic' = "none"

\* The pending result and the buffer are those of the result t.
DeferredKept(t) ==
    /\ pending_result' = Pending(t.script)
    /\ t.type = "TokenizerResultDone" => t.script = NoScript
    /\ t.type = "TokenizerResultScript" => t.script # NoScript
    /\ input' = t.updated_input

\* The parser thread is asked to tokenize each window's input once.
FedOnce(r) ==
    /\ Cardinality({i \in DOMAIN hlog : i >= r /\ hlog[i].type = "Feed"}) = 1
    /\ \A i \in DOMAIN to_parser : to_parser[i].type # "Feed"

\* C17 as stated: on the confirmed path end_speculative_parsing leaves the
\* result of the speculative Feed pending and takes its buffer, and the next
\* feed(), whichever it is, returns that result.
C17_Original ==
    /\ [][ConfirmedReturned =>
            /\ state' = "ExecutingParseOps"
            /\ DeferredKept(TerminalOf(wgen))]_vars
    /\ [][(FeedCalled /\ pending_result.some) =>
            /\ ret' = PendingReturn
            /\ UNCHANGED <<to_parser, sent, workerVars, workerLogs>>]_vars

\* C17: on the confirmed path end_speculative_parsing returns in
\* ExecutingParseOps with the result of the speculative Feed as the pending
\* result (Done: Ok, Script: Err with that script) and with the buffer
\* replaced by the one that result carries; the next feed() made in
\* ExecutingParseOps returns the pending result and the parser thread is not
\* fed the input again.
C17_ConfirmedLeavesPendingResult ==
    /\ [][ConfirmedReturned =>
            /\ state' = "ExecutingParseOps"
            /\ ResultOf(wgen) # {}
            /\ DeferredKept(TerminalOf(wgen))]_vars
    /\ [][(FeedCalled /\ state = "ExecutingParseOps" /\ pending_result.some) =>
            /\ wgen \in confirmed
            /\ pending_result = Pending(TerminalOf(wgen).script)
            /\ ret' = PendingReturn
            /\ FedOnce(wgen)'
            /\ UNCHANGED <<to_parser, sent, workerVars, workerLogs>>]_vars

\* The confirmed path has returned with a script as the pending result and
\* with a buffer that differs from the one the window started with.
C17_Witness ==
    /\ pc = "idle" /\ state = "ExecutingParseOps"
    /\ wgen \in confirmed /\ sent = wgen + 1
    /\ pending_result.some /\ pending_result.script # NoScript
    /\ input # specInput

\* A step that is a call of start_speculative_parsing.
StartCalled == pc = "idle" /\ pc' = "start"

\* A step that ends the invalidated path of end_speculative_parsing.
InvalidatedReturned == pc = "end_spec" /\ pc' = "idle" /\ panic' = "none"

\* C18: start_speculative_parsing sends a copy of the buffer and leaves the
\* buffer as it is; the buffer stays so while the window is open, and the
\* invalidated path of end_speculative_parsing leaves the caller with the
\* buffer the window started with, whatever leftover input the parser
\* thread's result reports.
C18_InputSurvivesInvalidation ==
    /\ [][StartCalled =>
            /\ input' = input
            /\ to_parser' = Append(to_parser, ToParser("Feed", input, TRUE, NoTok))]_vars
    /\ [](pc \in {"start", "end_spec"} \/ state = "SpeculativeParsing" => input = specInput)
    /\ [][InvalidatedReturned =>
            /\ input' = specInput /\ specInput' = specInput
            /\ Terminal(Head(to_main))]_vars

\* The invalidated path has returned: the buffer is the one the window
\* started with, and the parser thread's result reported another.
C18_Witness ==
    /\ pc = "idle" /\ state = "ExecutingParseOps"
    /\ wgen \in written /\ wgen \notin confirmed /\ sent = wgen + 1
    /\ ResultOf(wgen) # {}
    /\ input = specInput /\ input # << >>
    /\ TerminalOf(wgen).updated_input # input

\* The message at the head of the parser thread's channel is one its Sink's
\* state has no use for.
Buffering == html_tokenizer.sink.state = "BufferingParseOperations"

InvalidForWorker ==
    /\ to_parser # << >>
    /\ \/ Head(to_parser).type = "FlushTreeOps" /\ ~Buffering
       \/ Head(to_parser).type = "Feed" /\ Buffering
       \/ Head(to_parser).type = "RestoreInternalState" /\ ~Buffering

\* The message at the head of the main thread's channel is one the recv the
\* main thread is in does not expect.
InvalidForMain ==
    /\ to_main # << >>
    /\ \/ pc = "feed" /\ Head(to_main).type \notin
              {"ProcessOperation", "TokenizerResultDone", "TokenizerResultScript"}
       \/ pc = "start" /\ Head(to_main).type # "HtmlTokenizerInternalState"
       \/ pc = "end_spec" /\ ~Terminal(Head(to_main))
       \/ pc = "end_spec_ops" /\ Head(to_main).type # "SpeculativeParseOps"
       \/ pc = "end" /\ Head(to_main).type \notin {"ProcessOperation", "End"}

\* C19 as stated: a thread that receives a message that is not valid for its
\* state panics; the message is not handled.
C19_Original ==
    /\ [][(MainReceived /\ InvalidForMain) => panic' # "none"]_vars
    /\ [][(WorkerStepped /\ InvalidForWorker) => panic' # "none"]_vars

\* The parser thread has handled a speculative Feed while it was buffering
\* for the one before, and the program goes on.
C19_Witness ==
    /\ panic = "none"
    /\ Len(hlog) >= 2
    /\ SpeculativeFeed(Len(hlog)) /\ SpeculativeFeed(Len(hlog) - 1)

\* Main-thread state a call must not touch before it fails: the Tokenizer's
\* state with its embedded tokenizer, and the executor.
Owned == <<state, tokenizer, executor, document_write_called, pending_result>>

\* C20: an operation called in a state that does not list it never returns:
\* end_speculative_parsing in ExecutingParseOps panics at once;
\* start_speculative_parsing and end() in SpeculativeParsing panic in their
\* recv, which the result of the speculative Feed always reaches; until then
\* the state, the embedded tokenizer and the executor stay as they were.
C20_UnlistedCallIsFatal ==
    /\ [][(misuse' # "none") => UNCHANGED Owned]_vars
    /\ [](misuse = "end_speculative_parsing" => panic # "none")
    /\ [](misuse # "none" /\ panic = "none" => pc \in {"start", "end"})
    /\ (misuse # "none") ~> (panic # "none")

\* start_speculative_parsing was called while speculating, the parser thread
\* handled its Feed, and the call has panicked with the window untouched.
C20_Witness ==
    /\ misuse = "start_speculative_parsing"
    /\ panic = "start_speculative_parsing: unreachable"
    /\ state = "SpeculativeParsing"
    /\ tokenizer.sink.state = "ParsingDocWriteContents"
    /\ Len(hlog) = sent

\* The input of the Feed messages handled so far, in order, as one input.
RECURSIVE FedFrom(_)
FedFrom(i) == IF i > Len(hlog) THEN << >> ELSE hlog[i].input \o FedFrom(i + 1)

\* Every call so far was a feed() in ExecutingParseOps that returned Ok, and
\* nothing is in flight.
OnlyPlainFeeds ==
    /\ pc = "idle" /\ state = "ExecutingParseOps"
    /\ to_parser = << >> /\ to_main = << >>
    /\ \A i \in DOMAIN hlog : hlog[i].type = "Feed" /\ ~hlog[i].should_parse_speculatively
    /\ \A i \in DOMAIN wlog : wlog[i].type # "TokenizerResultScript"

\* The tokenizer Tokenizer::new starts the parser thread with.
InitialTokenizer ==
    [stack |-> << >>, w |-> NoWorldSink(MintN(SinkNew, Len(minted) - Len(FromWorker(minted))))]

\* What one feed() of the whole input makes the parser thread send.
OneFeed(whole) == OpsOf(TokFeed(InitialTokenizer, whole).w.out)

\* C21: when the input was fed in chunks by successive feed() calls in
\* ExecutingParseOps, none of which stopped at a script, the operations
\* applied to the executor are, in order, those of one feed() of the whole
\* input.
C21_ChunkingTransparent ==
    OnlyPlainFeeds => StripAll(Applied) = OneFeed(FedFrom(1))

\* Three non-empty chunks were fed, from inside an open template element to
\* after it, and applied.
C21_Witness ==
    /\ OnlyPlainFeeds
    /\ Len(hlog) >= 3
    /\ \A i \in DOMAIN hlog : hlog[i].input # << >>
    /\ hlog[1].input # hlog[2].input
    /\ Len(Applied) >= 6

\* The main thread is inside a call, at a recv.
InCall == pc \in {"feed", "start", "end_spec", "end_spec_ops", "end"}

\* The main thread waits for a message while the parser thread has none to
\* handle, or has ended.
MutualWait == InCall /\ to_main = << >> /\ (to_parser = << >> \/ ~running)

\* C22: with the calls made in the states that list them and both threads
\* scheduled, no thread waits for the other while the other waits for it,
\* every Feed handled has exactly one result, every message sent to the
\* parser thread is handled, and every call returns.
C22_NoDeadlock ==
    /\ [](~MutualWait)
    /\ [](\A r \in DOMAIN hlog : hlog[r].type = "Feed" => Cardinality(ResultOf(r)) = 1)
    /\ []<>(Len(hlog) = sent)
    /\ InCall ~> ~InCall

\* end_speculative_parsing waits for the batch while the parser thread has
\* not yet handled FlushTreeOps, in a run that already had a rollback.
C22_Witness ==
    /\ pc = "end_spec_ops" /\ to_main = << >> /\ to_parser # << >>
    /\ \E g \in written : g < wgen

\* A call was made after the parser thread ended and its message was sent:
\* the parser thread will never handle it.
LateCall == ~running /\ sent > Len(hlog)

Mode == html_tokenizer.sink.state

Handled(type) == Len(hlog') = Len(hlog) + 1 /\ hlog'[Len(hlog')].type = type

HandledFeed(spec) ==
    Handled("Feed") /\ hlog'[Len(hlog')].should_parse_speculatively = spec

OpKinds == {"GetTemplateContents", "CreateElement", "CreateComment", "Append", "Pop"}

ModeAfterOperation(sink, kind) ==
    SinkProcessOperation(World(sink, << >>, 1), ParseOp(kind, 1, 0, 1)).sink.state

C24_ModeChangesOnlyOnMessages ==
    /\ [][/\ HandledFeed(TRUE) => Mode' = "BufferingParseOperations"
          /\ HandledFeed(FALSE) => Mode' = Mode
          /\ Handled("FlushTreeOps") =>
                Mode = "BufferingParseOperations" /\ Mode' = "SendingParseOps"
          /\ Handled("RestoreInternalState") =>
                html_tokenizer' = get_self_from_sendable(Head(to_parser).tok_internal_state)
          /\ Handled("SetPlainTextState") \/ Handled("End") => Mode' = Mode
          /\ Len(hlog') = Len(hlog) => html_tokenizer' = html_tokenizer]_vars
    /\ [](\A kind \in OpKinds :
            /\ ModeAfterOperation(html_tokenizer.sink, kind) = Mode
            /\ tokenizer.sink.state = "ParsingDocWriteContents" =>
                   ModeAfterOperation(tokenizer.sink, kind) = "ParsingDocWriteContents")

C24_Witness ==
    /\ Mode = "BufferingParseOperations"
    /\ Len(html_tokenizer.sink.queue) >= 2
    /\ Len(hlog) >= 3
    /\ hlog[Len(hlog)].type = "SetPlainTextState"
    /\ \E i \in DOMAIN hlog : hlog[i].type = "Feed" /\ ~hlog[i].should_parse_speculatively

\* C25: on every Sink the program holds (the parser thread's, sending or
\* buffering, and the embedded tokenizer's, parsing document.write contents)
\* each TreeSink callback that produces an operation delivers exactly one,
\* to the one destination its SinkState names: one ProcessOperation message
\* when sending, one entry at the tail of the queue when buffering, one
\* process_operation of the executor it holds when parsing document.write
\* contents; the other two destinations are left as they were.
Sinks ==
    {html_tokenizer.sink} \cup (IF state = "SpeculativeParsing" THEN {tokenizer.sink} ELSE {})

Unknown(sink) == {t \in DOMAIN sink.parse_node_data : sink.parse_node_data[t] = NONE}

\* The worlds the callbacks leave when called on w.
Callbacks(w) ==
    {create_element(w).w, create_comment(w).w, sink_append(w, 0, TEXT), sink_pop(w, 0)}
        \cup {get_template_contents(w, t).w : t \in Unknown(w.sink)}

Grown(before, after) ==
    Len(after) = Len(before) + 1 /\ SubSeq(after, 1, Len(before)) = before

Delivered(w0, w1) ==
    CASE w0.sink.state = "SendingParseOps" ->
            /\ Grown(w0.out, w1.out)
            /\ w1.out[Len(w1.out)].type = "ProcessOperation"
            /\ w1.sink.queue = w0.sink.queue
            /\ w1.sink.executor = w0.sink.executor
      [] w0.sink.state = "BufferingParseOperations" ->
            /\ Grown(w0.sink.queue, w1.sink.queue)
            /\ w1.out = w0.out
            /\ w1.sink.executor = w0.sink.executor
      [] w0.sink.state = "ParsingDocWriteContents" ->
            /\ Grown(w0.sink.executor.log, w1.sink.executor.log)
            /\ w1.out = w0.out
            /\ w1.sink.queue = w0.sink.queue

C25_OneOperationOneDestination ==
    \A sink \in Sinks : \A w1 \in Callbacks(World(sink, << >>, 1)) :
        Delivered(World(sink, << >>, 1), w1)

C25_Witness ==
    /\ state = "SpeculativeParsing"
    /\ Mode = "BufferingParseOperations"
    /\ html_tokenizer.sink.queue # << >>
    /\ Unknown(html_tokenizer.sink) # {} /\ Unknown(tokenizer.sink) # {}
    /\ \E i \in DOMAIN Applied : Applied[i].gen = 0
    /\ \E i \in DOMAIN Applied : Applied[i].gen # 0

\* C26: the handles of the executor bound to the document only grow in
\* number: no step takes a handle out of its table, whoever holds it; a step
\* that applies no operation (the executor moving into the embedded
\* tokenizer's Sink and back among them) leaves the whole executor as it
\* was; no handle is introduced by two applied operations, and an operation
\* introducing a handle that is bound panics instead of binding it again;
\* RemoveFromParent and ReparentChildren on any handles of the table leave
\* the table as it was, so a node removed from its parent is still found.
Introducing == {"GetTemplateContents", "CreateElement", "CreateComment"}

BoundBy(id) == {i \in DOMAIN Applied : Applied[i].kind \in Introducing /\ Applied[i].node = id}

Structural(ex) ==
    {TreeOp("RemoveFromParent", t, NONE, NONE, NONE, NONE) : t \in ex.nodes}
        \cup {TreeOp("ReparentChildren", t, NONE, NONE, n, NONE) : t, n \in ex.nodes}

Removed ==
    {Applied[i].target : i \in {j \in DOMAIN Applied : Applied[j].kind = "RemoveFromParent"}}

C26_RegistryOnlyGrows ==
    /\ [][/\ RealExecutor.nodes \subseteq RealExecutor'.nodes
          /\ Len(Applied') = Len(Applied) => RealExecutor' = RealExecutor]_vars
    /\ [](\A id \in RealExecutor.nodes : Cardinality(BoundBy(id)) <= 1)
    /\ [](\A id \in RealExecutor.nodes :
            /\ ExecProcessOperation(RealExecutor, ParseOp("CreateElement", id, NONE, NONE)).err
                   # "none"
            /\ ExecProcessOperation(RealExecutor, ParseOp("CreateElement", id, NONE, NONE)).nodes
                   = RealExecutor.nodes)
    /\ [](\A op \in Structural(RealExecutor) :
            ExecProcessOperation(RealExecutor, op).nodes = RealExecutor.nodes)
    /\ [](\A t \in Removed : Found(RealExecutor, t))

C26_Witness ==
    /\ state = "SpeculativeParsing"
    /\ \E t \in Removed : RealExecutor.parent[t] = NONE
    /\ \E i \in DOMAIN Applied :
            Applied[i].kind = "ReparentChildren" /\ RealExecutor.children[Applied[i].prev] # << >>
    /\ Cardinality(RealExecutor.nodes) >= 5

\* C27: every applied AppendBasedOnParentNode{element, prev_element, node}
\* left the executor as AppendBeforeSibling{sibling: element, node} would
\* have when element had a parent in the tree it was applied to, and as
\* Append{parent: prev_element, node} would have otherwise; the operation
\* itself carries both handles, whichever thread produced it.
\* The executor Tokenizer::new made: the handles that no applied operation
\* introduced are the document and the fragment context nodes 1..k.
FirstExecutor ==
    InsertAll(ExecutorNew(TRUE),
              Range(1, Cardinality({id \in RealExecutor.nodes : BoundBy(id) = {}})))

ExecutorAt(i) == ExecAll(FirstExecutor, SubSeq(Applied, 1, i))

Effect(ex, op) == [ExecProcessOperation(ex, op) EXCEPT !.log = << >>]

Resolved(ex, op) ==
    IF has_parent_node(ex, op.element)
    THEN ParseOp("AppendBeforeSibling", NONE, op.element, op.child)
    ELSE ParseOp("Append", NONE, op.prev, op.child)

BasedOnParent == {i \in DOMAIN Applied : Applied[i].kind = "AppendBasedOnParentNode"}

C27_ResolvedWhenApplied ==
    /\ ExecutorAt(Len(Applied)) = RealExecutor
    /\ \A i \in BasedOnParent :
          /\ Applied[i].element # NONE /\ Applied[i].prev # NONE
          /\ Effect(ExecutorAt(i - 1), Applied[i])
                 = Effect(ExecutorAt(i - 1), Resolved(ExecutorAt(i - 1), Applied[i]))

C27_Witness ==
    /\ \E i \in BasedOnParent :
          Applied[i].gen # 0 /\ has_parent_node(ExecutorAt(i - 1), Applied[i].element)
    /\ \E i \in BasedOnParent :
          /\ Applied[i].gen \in confirmed
          /\ ~has_parent_node(ExecutorAt(i - 1), Applied[i].element)

\* C28 as stated: the tree node of every applied AssociateWithForm is
\* element when element has a parent and prev_element otherwise.
Associations == {i \in DOMAIN Applied : Applied[i].kind = "AssociateWithForm"}

ClaimedAnchor(ex, op) == IF has_parent_node(ex, op.element) THEN op.element ELSE op.prev

C28_Original ==
    \A i \in Associations :
        TreeNode(ExecutorAt(i - 1), Applied[i]) = ClaimedAnchor(ExecutorAt(i - 1), Applied[i])

\* C28: the tree node of an applied AssociateWithForm is element when element
\* has a parent or the operation has no prev_element, and prev_element
\* otherwise; when the tree node and form are in different trees the
\* operation leaves the executor as it was (table, tree, form owners) and
\* does not panic; when they are in one tree it sets the form owner of
\* target to form and changes nothing else.
Anchor(ex, op) ==
    IF op.prev # NONE /\ ~has_parent_node(ex, op.element) THEN op.prev ELSE op.element

OwnerSet(ex, op) == [ex EXCEPT !.form_owner = (op.target :> op.form) @@ @, !.log = << >>]

AssociationEffect(ex, op) ==
    /\ TreeNode(ex, op) = Anchor(ex, op)
    /\ Effect(ex, op).err = "none"
    /\ Effect(ex, op) = IF same_tree(ex, Anchor(ex, op), op.form) THEN OwnerSet(ex, op)
                        ELSE [ex EXCEPT !.log = << >>]

C28_AnchoredAssociation ==
    \A i \in Associations : AssociationEffect(ExecutorAt(i - 1), Applied[i])

\* prev_element was taken in one application, and in another the tree node
\* was in another tree than the form.
C28_Witness ==
    /\ \E i \in Associations :
          /\ Anchor(ExecutorAt(i - 1), Applied[i]) = Applied[i].prev
          /\ Applied[i].target \in DOMAIN RealExecutor.form_owner
    /\ \E i \in Associations :
          /\ ~same_tree(ExecutorAt(i - 1), Anchor(ExecutorAt(i - 1), Applied[i]), Applied[i].form)
          /\ Applied[i].target \notin DOMAIN RealExecutor.form_owner

\* C29: handle 0 is the document and nothing else: the executor bound to
\* the document holds 0 at every moment; no Sink ever returns 0 from
\* new_parse_node, on either thread, in any window, and the counter of every
\* Sink and of every snapshot in flight is at least 1; no operation produced,
\* queued, in flight or applied introduces 0.
Operations ==
    Applied \o produced \o html_tokenizer.sink.queue
        \o OpsOf(SelectSeq(to_main, LAMBDA x : x.type = "ProcessOperation"))

Counters ==
    {html_tokenizer.sink.next_parse_node_id}
        \cup (IF state = "SpeculativeParsing" THEN {tokenizer.sink.next_parse_node_id} ELSE {})
        \cup {to_parser[i].tok_internal_state.sink.next_parse_node_id :
                 i \in {j \in DOMAIN to_parser : to_parser[j].type = "RestoreInternalState"}}
        \cup {to_main[i].tok.sink.next_parse_node_id :
                 i \in {j \in DOMAIN to_main : to_main[j].type = "HtmlTokenizerInternalState"}}

C29_HandleZeroIsTheDocument ==
    /\ Found(RealExecutor, 0)
    /\ \A i \in DOMAIN minted : minted[i].id >= 1
    /\ \A n \in Counters : n >= 1
    /\ \A i \in DOMAIN Operations : Operations[i].node # 0
    /\ \A i \in DOMAIN to_main : \A k \in DOMAIN to_main[i].ops : to_main[i].ops[k].node # 0

C29_Witness ==
    /\ \E i, j \in DOMAIN hlog :
          /\ i < j /\ hlog[i].type = "RestoreInternalState"
          /\ \E k \in DOMAIN minted : minted[k].gen = j
    /\ \E k \in DOMAIN minted : minted[k].gen = 0 /\ minted[k].id \in RealExecutor.nodes
    /\ Cardinality(RealExecutor.nodes) >= 3

\* C30: a feed() made while the Tokenizer is in SpeculativeParsing applies,
\* within the call, exactly the operations its embedded tokenizer produces
\* for the written input, in the order it produces them, to the executor
\* bound to the document; the call returns in the same step, touches neither
\* channel nor the parser thread's Sink, and when it returns Err(script) the
\* script is in the executor's table.  No operation produced on the main
\* thread is ever in a channel or in the parser thread's queue.
WriteStep == Len(wrote') = Len(wrote) + 1

\* What the tokenizer produces for the input, in order, observed on a Sink
\* that only records.
ProducedBy(tok, inp) ==
    Streamed(TokFeed([stack |-> tok.stack,
                      w |-> World([tok.sink EXCEPT !.state = "SendingParseOps",
                                                   !.executor = NoExecutor], << >>, 0)],
                     inp).w.out)

NewlyApplied == SubSeq(Applied', Len(Applied) + 1, Len(Applied'))

InFlight ==
    OpsOf(SelectSeq(to_main, LAMBDA x : x.type = "ProcessOperation"))
        \o html_tokenizer.sink.queue \o produced

C30_WrittenContentAppliedAtOnce ==
    /\ [][WriteStep =>
            /\ NewlyApplied = ProducedBy(tokenizer, wrote'[Len(wrote')])
            /\ RealExecutor' = ExecAll(RealExecutor, NewlyApplied)
            /\ pc' = "idle" /\ ret'.kind \in {"Ok", "Err"}
            /\ ret'.kind = "Err" => Found(RealExecutor', ret'.script)
            /\ UNCHANGED <<to_main, to_parser, html_tokenizer, produced, sent>>]_vars
    /\ [](/\ \A i \in DOMAIN InFlight : InFlight[i].gen # 0
          /\ \A i \in DOMAIN to_main : \A k \in DOMAIN to_main[i].ops :
                to_main[i].ops[k].gen # 0)

C30_Witness ==
    /\ state = "SpeculativeParsing" /\ pc = "idle"
    /\ ret.kind = "Err" /\ Found(RealExecutor, ret.script)
    /\ Len(wrote) >= 2
    /\ Len(SelectSeq(Applied, LAMBDA o : o.gen = 0)) >= 4
    /\ to_main # << >>

\* A feed() made while the last window is one that ended in a rollback.
FeedAfterRollback ==
    FeedCalled /\ state = "ExecutingParseOps" /\ wgen \in written

\* Feed{should_parse_speculatively: false} is sent with the caller's buffer
\* and the call goes on to its recv; nothing is returned yet.
PlainFeedSent ==
    /\ to_parser' = Append(to_parser, ToParser("Feed", input', FALSE, NoTok))
    /\ pc' = "feed"
    /\ ret'.kind = "none"
    /\ UNCHANGED <<pending_result, executor>>

\* C31: whenever document_write_called is set there is no pending result, so
\* the assertion on the invalidated path of end_speculative_parsing never
\* fails and that path returns without a pending result; a feed() made after
\* a rollback sends Feed{should_parse_speculatively: false} to the parser
\* thread and returns no result of an earlier window.
C31_NoPendingResultOnceWritten ==
    /\ [](document_write_called => ~pending_result.some)
    /\ [](panic # "assert pending_result.is_none")
    /\ [][InvalidatedReturned => ~pending_result'.some]_vars
    /\ [][FeedAfterRollback => PlainFeedSent]_vars

\* A window was opened while the result of a confirmed window was still
\* pending, document.write was called in it, it was rolled back, and the
\* feed() after it was answered by the parser thread.
C31_Witness ==
    /\ pc = "idle" /\ state = "ExecutingParseOps"
    /\ confirmed # {} /\ wgen \in written
    /\ ncalls = MaxCalls
    /\ sent = wgen + 2
    /\ ret.kind \in {"Ok", "Err"}

\* The history entries of the messages that are in the channel to the main
\* thread: the channel holds the last messages the parser thread sent.
InChannel == SubSeq(wlog, Len(wlog) - Len(to_main) + 1, Len(wlog))

\* Every message in the channel answers request r.
RepliesTo(r) == \A i \in DOMAIN InChannel : InChannel[i].req = r

\* The result of the window's speculative Feed, and nothing before or after it.
DeferredOnly ==
    /\ Len(to_main) <= 1
    /\ \A i \in DOMAIN to_main :
          /\ Terminal(to_main[i]) /\ to_main[i].speculative_parsing_mode
          /\ InChannel[i].req = wgen

\* C32: between two calls the channel to the main thread is empty when the
\* Tokenizer is in ExecutingParseOps, and holds at most the result of the
\* speculative Feed and no ProcessOperation when it is in SpeculativeParsing;
\* both paths of end_speculative_parsing take that result out of the channel,
\* and whatever a call finds in the channel answers the message that call
\* sent (for end_speculative_parsing's first recv: the window's Feed).
C32_NoStaleMessage ==
    /\ (pc \in {"idle", "ended"} /\ state = "ExecutingParseOps") => to_main = << >>
    /\ (pc = "idle" /\ state = "SpeculativeParsing") => DeferredOnly
    /\ pc \in {"feed", "start", "end_spec_ops", "end"} => RepliesTo(sent)
    /\ pc = "end_spec" => DeferredOnly

\* While speculating, between two calls, the result of the speculative Feed
\* waits in the channel; one earlier window was confirmed, one rolled back.
C32_Witness ==
    /\ pc = "idle" /\ state = "SpeculativeParsing"
    /\ Len(to_main) = 1
    /\ confirmed # {} /\ written # {}

\* The parser thread has handled every message sent to it and the main
\* thread is between two calls.
InStep == to_parser = << >> /\ pc \in {"idle", "ended"}

Sending == html_tokenizer.sink.state = "SendingParseOps"

\* The operations the parser thread sent one by one for request r.
StreamedFor(r) == SelectSeq(ReplyTo(r), LAMBDA e : e.type = "ProcessOperation")

\* C33: between two calls, once the parser thread has handled every message
\* sent to it, its Sink is in SendingParseOps with nothing queued if the
\* Tokenizer is in ExecutingParseOps and in BufferingParseOperations if it is
\* in SpeculativeParsing; so it is sending again after either path of
\* end_speculative_parsing, and every operation produced for a Feed that is
\* not speculative is sent as a ProcessOperation of its own, none buffered.
C33_SidesInStep ==
    /\ (InStep /\ state = "ExecutingParseOps") =>
          Sending /\ html_tokenizer.sink.queue = << >>
    /\ (InStep /\ state = "SpeculativeParsing") => Buffering
    /\ \A r \in DOMAIN hlog :
          (hlog[r].type = "Feed" /\ ~hlog[r].should_parse_speculatively) =>
              Len(StreamedFor(r)) = Len(OfGen(produced, r))

\* One window was confirmed, one rolled back, and the operations of the
\* Feed after the rollback were streamed.
C33_Witness ==
    /\ InStep /\ state = "ExecutingParseOps"
    /\ confirmed # {} /\ wgen \in written
    /\ hlog[Len(hlog)].type = "Feed" /\ ~hlog[Len(hlog)].should_parse_speculatively
    /\ Len(StreamedFor(Len(hlog))) >= 2

\* The result e was sent for a Feed and carries that Feed's flag.
FlagOfItsFeed(e) ==
    /\ e.req \in DOMAIN hlog /\ hlog[e.req].type = "Feed"
    /\ e.speculative_parsing_mode = hlog[e.req].should_parse_speculatively

\* Every result waiting in the channel has the flag `spec`.
ResultsWaiting(spec) ==
    \A i \in DOMAIN to_main :
        Terminal(to_main[i]) => to_main[i].speculative_parsing_mode = spec

\* C34: speculative_parsing_mode of every TokenizerResultDone and
\* TokenizerResultScript is should_parse_speculatively of the Feed it
\* answers; a result feed() receives has the flag false, the result
\* end_speculative_parsing receives and holds has it true, and neither the
\* assert_eq! of feed() nor the assert! of the confirmed path ever fails.
C34_ResultFlagMatchesFeed ==
    /\ \A i \in DOMAIN wlog : Terminal(wlog[i]) => FlagOfItsFeed(wlog[i])
    /\ pc = "feed" => ResultsWaiting(FALSE)
    /\ pc = "end_spec" => ResultsWaiting(TRUE)
    /\ (pc = "end_spec_ops" /\ Alive) => (Terminal(msg) /\ msg.speculative_parsing_mode)
    /\ panic \notin {"parser thread parsed speculatively", "assert speculative_parsing_mode"}

\* feed() has received a result of either kind, and the confirmed path has
\* stored the result of a speculative Feed that stopped at a script.
C34_Witness ==
    /\ pc = "idle" /\ state = "ExecutingParseOps" /\ to_main = << >>
    /\ wgen \in confirmed /\ pending_result.some /\ pending_result.script # NoScript
    /\ \E i \in DOMAIN wlog :
          Terminal(wlog[i]) /\ ~wlog[i].speculative_parsing_mode /\ wlog[i].req < wgen

\* The operation that creates node id is in the sequence ops.
Creates(ops, id) == \E i \in DOMAIN ops : ops[i].kind = "CreateElement" /\ ops[i].node = id

\* A step in which feed() receives TokenizerResultScript.
ScriptReceived ==
    pc = "feed" /\ to_main # << >> /\ Head(to_main).type = "TokenizerResultScript"

\* A step in which the confirmed path receives the batch while it holds a
\* TokenizerResultScript.
BatchReceived ==
    /\ pc = "end_spec_ops" /\ to_main # << >>
    /\ Head(to_main).type = "SpeculativeParseOps"
    /\ msg.type = "TokenizerResultScript"

\* C35: a script reported to the driver is in the node table.  When feed()
\* reads TokenizerResultScript the operation that created the script has
\* been applied already; on the confirmed path of end_speculative_parsing the
\* result is received first, while the script is not in the table yet, and
\* its script is looked up only after the whole batch, which creates it, has
\* been applied.
C35_ReportedScriptResolves ==
    /\ [](ret.kind = "Err" => Found(RealExecutor, ret.script))
    /\ [](pending_result.script # NoScript => Found(RealExecutor, pending_result.script))
    /\ [](panic # "Node not found!")
    /\ [][ScriptReceived =>
            /\ Creates(executor.log, Head(to_main).script)
            /\ ret' = Returned("Err", Head(to_main).script)]_vars
    /\ [][BatchReceived =>
            /\ ~Found(executor, msg.script)
            /\ Creates(Head(to_main).ops, msg.script)
            /\ executor'.log = executor.log \o Head(to_main).ops
            /\ pending_result' = Pending(msg.script)]_vars

\* feed() has returned a script the parser thread streamed, and a later
\* window was confirmed with a script as its stored result.
C35_Witness ==
    /\ pc = "idle" /\ state = "ExecutingParseOps"
    /\ wgen \in confirmed /\ pending_result.script # NoScript
    /\ Creates(OfGen(executor.log, wgen), pending_result.script)
    /\ \E i \in DOMAIN wlog :
          /\ wlog[i].type = "TokenizerResultScript" /\ wlog[i].req < wgen
          /\ ~wlog[i].speculative_parsing_mode

\* A step that is a call of end_speculative_parsing with no blocking script
\* pending.
NonBlockingCalled == pc = "idle" /\ state = "SpeculativeParsing" /\ state' # state

\* A step that ends end_speculative_parsing on either path.
WindowResolved == pc \in {"end_spec", "end_spec_ops"} /\ pc' = "idle"

\* C36: a call of end_speculative_parsing with no blocking script pending
\* passes `assert_eq!(waiting_on_script, false, ..)`, also when an earlier
\* call had set the flag: it goes on to its recv with the flag false, the
\* flag is false while the window is resolved, the assertion never fails,
\* and the window a blocking call had deferred is resolved by this call,
\* confirmed or rolled back.
C36_ResolvedWhenNotWaiting ==
    /\ [][NonBlockingCalled =>
            /\ ~waiting_on_script' /\ panic' = "none"
            /\ state' = "ExecutingParseOps" /\ pc' = "end_spec"]_vars
    /\ [](pc \in {"end_spec", "end_spec_ops"} => ~waiting_on_script)
    /\ [](panic # "should not execute parse ops while waiting on script")
    /\ [][WindowResolved => (wgen \in confirmed' \cup written' /\ panic' = "none")]_vars
    /\ (deferred /\ pc = "end_spec") ~>
          (pc = "idle" /\ state = "ExecutingParseOps" /\ wgen \in confirmed \cup written)

\* A window in which a blocking call had set the flag is past the assertion
\* and the recv of the result, waiting for the batch.
C36_Witness ==
    /\ deferred /\ pc = "end_spec_ops" /\ state = "ExecutingParseOps"
    /\ ~waiting_on_script
    /\ to_main # << >>

\* A step that changes a pending result that reports a script.
PendingScriptChanged ==
    pending_result.script # NoScript /\ pending_result' # pending_result

\* The step is the feed() in ExecutingParseOps that returns that script.
ReportedToDriver ==
    /\ FeedCalled /\ state = "ExecutingParseOps"
    /\ ret' = Returned("Err", pending_result.script)

\* C37 as stated: a pending result that reports a script is changed by
\* nothing but the feed() that returns it as Err(script): not by a further
\* window that is confirmed, not by end(), which leaves no script pending
\* behind.
C37_Original ==
    /\ [][PendingScriptChanged => ReportedToDriver]_vars
    /\ [](pc = "ended" => pending_result.script = NoScript)

\* The calls of feed() that returned a pending result, in a run without
\* document.write: the calls of the driver that sent no Feed.
PendingReturns ==
    ncalls - Cardinality({r \in DOMAIN hlog : hlog[r].type = "Feed"})

\* Three windows were confirmed and one pending result was returned, before
\* the window whose Feed stopped at a script; that script was pending when
\* the next window was opened and is not pending after it was confirmed.
C37_Witness ==
    /\ pc = "idle" /\ state = "ExecutingParseOps" /\ to_parser = << >>
    /\ written = {} /\ wgen \in confirmed
    /\ Cardinality(confirmed) = 3 /\ PendingReturns = 1
    /\ pending_result = Pending(NoScript)
    /\ \E g \in confirmed :
          /\ g < wgen /\ ResultOf(g) # {}
          /\ TerminalOf(g).type = "TokenizerResultScript"

\* Everything handed to process_operation in the world w, wherever the
\* SinkState put it.
Handed(w) == OpsOf(w.out) \o w.sink.queue \o w.sink.executor.log

ContentsOp(w, target, id) ==
    [ParseOp("GetTemplateContents", id, target, NONE) EXCEPT !.gen = w.gen]

\* What the first call for a target without contents does: one handle is
\* minted, recorded for the target and returned, one operation is handed on.
FirstCall(w, target, first) ==
    /\ first.id = w.sink.next_parse_node_id
    /\ first.w.sink.next_parse_node_id = first.id + 1
    /\ first.w.sink.parse_node_data[target] = first.id
    /\ Handed(first.w) = Handed(w) \o <<ContentsOp(w, target, first.id)>>

\* What a call for a target with contents does: that handle is returned and
\* nothing changes.
LaterCall(w, target, later) ==
    later.id = w.sink.parse_node_data[target] /\ later.w = w

CalledTwice(w, target, first) ==
    /\ IF w.sink.parse_node_data[target] = NONE THEN FirstCall(w, target, first)
       ELSE LaterCall(w, target, first)
    /\ LaterCall(first.w, target, get_template_contents(first.w, target))

ContentsApplied == SelectSeq(Applied, LAMBDA o : o.kind = "GetTemplateContents")

Targets(ops) == [i \in DOMAIN ops |-> ops[i].target]

\* C38: on every Sink the program reaches, for every handle it has minted,
\* the first get_template_contents for a target mints one handle and hands
\* on one GetTemplateContents, and a call for a target whose contents are
\* known returns that handle, mints nothing and hands on nothing; the
\* executor is given one GetTemplateContents for a target and for a contents
\* handle at most.
C38_TemplateContentsOnce ==
    /\ \A sink \in Sinks : \A target \in DOMAIN sink.parse_node_data :
          CalledTwice(World(sink, << >>, 1), target,
                      get_template_contents(World(sink, << >>, 1), target))
    /\ Distinct(NodesOf(ContentsApplied))
    /\ Distinct(Targets(ContentsApplied))

\* The contents of one template were asked for twice or more: one
\* GetTemplateContents was applied for it and two nodes were appended to the
\* contents; the parser thread's Sink knows the contents of a template and
\* has handles without contents.
C38_Witness ==
    /\ \E i \in DOMAIN Applied :
          /\ Applied[i].kind = "GetTemplateContents"
          /\ Cardinality({j \in DOMAIN Applied :
                             /\ Applied[j].kind = "Append"
                             /\ Applied[j].target = Applied[i].node}) >= 2
    /\ Unknown(html_tokenizer.sink) # {}
    /\ Unknown(html_tokenizer.sink) # DOMAIN html_tokenizer.sink.parse_node_data
    /\ written # {}

\* Fragment parsing: Tokenizer::new is given a context element, with or
\* without a form element.
WithFragment == {1, 2}

InitFragment == \E frag \in WithFragment : InitFor(frag)

SpecFragment == InitFragment /\ [][Next]_vars

\* The handles minted after the ones Tokenizer::new minted, on either thread.
MintedLater == SubSeq(minted, Cardinality(context) + 1, Len(minted))

\* The parser thread has handled no message.
WorkerNotStarted == hlog = << >>

\* C39: in fragment parsing the handles Tokenizer::new minted for the
\* context element and the optional form element are the first the Sink
\* gave out and are in the executor's table at every moment, the first
\* included, when the parser thread has handled nothing; the counter of
\* every Sink and of every snapshot in flight is past them, every handle
\* minted later differs from them, no operation produced, queued, in flight
\* or applied introduces one of them, and no insertion finds a handle taken.
C39_ContextHandlesNeverReused ==
    /\ context # {}
    /\ context = {minted[i].id : i \in 1..Cardinality(context)}
    /\ \A id \in context : Found(RealExecutor, id)
    /\ WorkerNotStarted =>
          /\ RealExecutor.nodes = context \cup {0}
          /\ html_tokenizer.sink.next_parse_node_id = Cardinality(context) + 1
    /\ \A n \in Counters : \A id \in context : n > id
    /\ \A i \in DOMAIN MintedLater : MintedLater[i].id \notin context
    /\ \A i \in DOMAIN Operations : Operations[i].node \notin context
    /\ \A i \in DOMAIN to_main : \A k \in DOMAIN to_main[i].ops :
          to_main[i].ops[k].node \notin context
    /\ panic # "duplicate node id"

\* A fragment with a context element and a form element: the parser thread
\* minted handles in two windows, one of them rolled back, and the
\* operations introducing them were applied beside the two context nodes.
C39_Witness ==
    /\ context = {1, 2}
    /\ written # {}
    /\ \E i, j \in DOMAIN MintedLater :
          /\ MintedLater[i].gen # 0 /\ MintedLater[j].gen # 0
          /\ MintedLater[i].gen # MintedLater[j].gen
    /\ \E i \in DOMAIN Applied : Applied[i].node # NONE /\ Applied[i].node > 2
    /\ Cardinality(RealExecutor.nodes) >= 5

====
